---- MODULE Spec2Model ----
(***************************************************************************)
(* Model of terraform-provider-sabnzbd: the client of the SABnzbd HTTP     *)
(* API (transport, server / category / folders mappers), the lifecycle     *)
(* handlers of the three resources and the config data source, run against *)
(* a remote configuration, and the provider's own configuration step.      *)
(***************************************************************************)
EXTENDS Integers, Sequences, FiniteSets, TLC

VARIABLES
    provider,   \* provider configuration, environment and the client Configure built
    managed,    \* kind of the resource block the host configuration declares
    remote,     \* remote SABnzbd configuration: misc map, servers, categories
    srvState,   \* host-persisted state of the sabnzbd_server resource
    catState,   \* host-persisted state of the sabnzbd_category resource
    fldState,   \* host-persisted state of the sabnzbd_folders resource
    cfgState,   \* state of the sabnzbd_config data source
    tasks,      \* client calls in flight when the host runs operations in parallel
    lastOp      \* the lifecycle invocation just completed: handler, requests, outcome

vars == <<provider, managed, remote, srvState, catState, fldState, cfgState, tasks, lastOp>>

\* Longest servers / categories collection the remote holds.
MaxEntries == 2

(***************************************************************************)
(* JSON values as encoding/json sees them.                                 *)
(***************************************************************************)
JS(s) == <<"string", s>>
JN(n) == <<"number", n>>
JB(b) == <<"bool", b>>
IsJS(j) == j[1] = "string"
IsJN(j) == j[1] = "number"

(***************************************************************************)
(* Framework attribute values: a null value is the empty tuple, a known    *)
(* value v the tuple <<v>>.  ValueString / ValueInt64 / ValueBool return   *)
(* the zero value of the type for null.                                    *)
(***************************************************************************)
Null == <<>>
StringValue(s) == <<s>>
Int64Value(n) == <<n>>
BoolValue(b) == <<b>>
ValueString(a) == IF a = Null THEN "" ELSE a[1]
ValueInt64(a) == IF a = Null THEN 0 ELSE a[1]
ValueBool(a) == IF a = Null THEN FALSE ELSE a[1]

(***************************************************************************)
(* strconv.Itoa: the decimal text of an integer, as a sequence of          *)
(* characters; ParseInt is the reading the remote makes of such a text.    *)
(***************************************************************************)
DigitChars == <<"0", "1", "2", "3", "4", "5", "6", "7", "8", "9">>

RECURSIVE FormatUint(_)
FormatUint(n) ==
    IF n < 10 THEN <<DigitChars[n + 1]>>
    ELSE Append(FormatUint(n \div 10), DigitChars[(n % 10) + 1])

Itoa(n) == IF n < 0 THEN <<"-">> \o FormatUint(0 - n) ELSE FormatUint(n)

DigitVal(c) == CHOOSE d \in 0..9 : DigitChars[d + 1] = c

RECURSIVE ParseUint(_)
ParseUint(s) ==
    IF Len(s) = 0 THEN 0
    ELSE 10 * ParseUint(SubSeq(s, 1, Len(s) - 1)) + DigitVal(s[Len(s)])

ParseInt(s) == IF Len(s) > 0 /\ s[1] = "-" THEN 0 - ParseUint(Tail(s)) ELSE ParseUint(s)

\* boolToInt with its two results exchanged.
boolToInt_Inverted(b) == IF b THEN <<"0">> ELSE <<"1">>

boolToInt(b) == IF b THEN <<"1">> ELSE <<"0">>

(***************************************************************************)
(* url.Values: a map from parameter names to values.                       *)
(***************************************************************************)
EmptyParams == [k \in {} |-> ""]
ParamSet(p, k, v) == [x \in (DOMAIN p) \cup {k} |-> IF x = k THEN v ELSE p[x]]
ParamSetIf(c, p, k, v) == IF c THEN ParamSet(p, k, v) ELSE p
HasParam(p, k) == k \in DOMAIN p

(***************************************************************************)
(* The remote SABnzbd instance (environment).  It holds the flat misc map  *)
(* and the servers and categories collections as JSON values, answers      *)
(* get_config with a snapshot and applies set_config / del_config.         *)
(***************************************************************************)
ServerStringKeys == {"name", "host", "username", "password", "ssl_ciphers", "notes"}
ServerIntKeys == {"port", "connections", "ssl", "ssl_verify", "enable", "optional",
                  "retention", "timeout", "priority", "required"}
CategoryStringKeys == {"name", "dir", "script", "pp"}
CategoryIntKeys == {"priority", "order"}
MiscStringKeys == {"download_dir", "download_free", "complete_dir", "complete_free",
                   "permissions", "dirscan_dir", "script_dir", "email_dir",
                   "password_file", "nzb_backup_dir", "admin_dir", "backup_dir", "log_dir"}
MiscIntKeys == {"auto_resume", "dirscan_speed"}

ProtocolKeys == {"mode", "section", "name", "keyword", "apikey", "output"}

\* The value the remote stores for parameter k of a request.
StoredValue(intKeys, k, v) == IF k \in intKeys THEN JN(ParseInt(v)) ELSE JS(v)

\* The entry the remote keeps after set_config wrote params over base.
ApplyParams(base, params, strKeys, intKeys) ==
    LET sent == (DOMAIN params) \cap (strKeys \cup intKeys)
    IN [k \in (DOMAIN base) \cup sent |->
            IF k \in sent THEN StoredValue(intKeys, k, params[k]) ELSE base[k]]

NewEntry(name) == [k \in {"name"} |-> JS(name)]

EntryNamed(e, name) == "name" \in DOMAIN e /\ e["name"] = JS(name)

HasEntry(coll, name) == \E i \in 1..Len(coll) : EntryNamed(coll[i], name)

\* set_config on a named section: overwrite the entry of that name or append one.
UpsertEntry(coll, params, strKeys, intKeys) ==
    LET name == params["name"]
    IN IF HasEntry(coll, name)
       THEN [i \in 1..Len(coll) |->
                IF EntryNamed(coll[i], name)
                THEN ApplyParams(coll[i], params, strKeys, intKeys)
                ELSE coll[i]]
       ELSE Append(coll, ApplyParams(NewEntry(name), params, strKeys, intKeys))

\* del_config on a named section: drop the entries of that name.
RemoveEntry(coll, name) == SelectSeq(coll, LAMBDA e : ~EntryNamed(e, name))

SectionOf(rem, section) ==
    IF section = "servers" THEN rem.servers ELSE rem.categories

WithSection(rem, section, coll) ==
    IF section = "servers" THEN [rem EXCEPT !.servers = coll]
    ELSE [rem EXCEPT !.categories = coll]

\* The remote configuration after an accepted request.
RemoteApply(rem, params) ==
    IF params["mode"] = "set_config" /\ params["section"] = "misc"
        THEN [rem EXCEPT !.misc = ApplyParams(rem.misc, params, MiscStringKeys, MiscIntKeys)]
    ELSE IF params["mode"] = "set_config" /\ params["section"] = "servers"
        THEN WithSection(rem, "servers",
                 UpsertEntry(rem.servers, params, ServerStringKeys, ServerIntKeys))
    ELSE IF params["mode"] = "set_config" /\ params["section"] = "categories"
        THEN WithSection(rem, "categories",
                 UpsertEntry(rem.categories, params, CategoryStringKeys, CategoryIntKeys))
    ELSE IF params["mode"] = "del_config"
        THEN WithSection(rem, params["section"],
                 RemoveEntry(SectionOf(rem, params["section"]), params["keyword"]))
    ELSE rem

\* How the remote shows a stored password in a snapshot.
PwShown(e, pw) ==
    IF "password" \notin DOMAIN e \/ pw = "stored" THEN e
    ELSE [e EXCEPT !["password"] = IF pw = "masked" THEN JS("**********") ELSE JS("")]

Snapshot(rem, pw) ==
    [misc |-> rem.misc,
     servers |-> [i \in 1..Len(rem.servers) |-> PwShown(rem.servers[i], pw)],
     categories |-> rem.categories]

\* The JSON object an accepting remote answers with.
RemoteVersion == "4.3.2"
RemoteScripts == <<"None", "notify.py">>

JA(seq) == <<"array", seq>>
IsStringArray(j) == j[1] = "array" /\ \A i \in 1..Len(j[2]) : IsJS(j[2][i])

SuccessObject(rem, params, pw) ==
    IF params["mode"] = "get_config"
        THEN [k \in {"config"} |-> <<"object", Snapshot(rem, pw)>>]
    ELSE IF params["mode"] = "version"
        THEN [k \in {"version"} |-> JS(RemoteVersion)]
    ELSE IF params["mode"] = "get_cats"
        THEN [k \in {"categories"} |->
                 JA([i \in 1..Len(rem.categories) |-> rem.categories[i]["name"]])]
    ELSE IF params["mode"] = "get_scripts"
        THEN [k \in {"scripts"} |->
                 JA([i \in 1..Len(RemoteScripts) |-> JS(RemoteScripts[i])])]
    ELSE [k \in {"status"} |-> JB(TRUE)]

WithErrorField(obj, errF) ==
    IF errF = "empty" THEN ParamSet(obj, "error", JS(""))
    ELSE IF errF = "number" THEN ParamSet(obj, "error", JN(0))
    ELSE obj

\* The status member an answer carries: doRequest has no field for it.
WithStatus(obj, status) ==
    IF status THEN obj ELSE ParamSet(obj, "status", JB(FALSE))

\* What the network and the remote do with one request.  A rejecting remote
\* answers with an error message, with or without the data asked for.  The
\* status member and the HTTP status code of an answer are whatever the
\* remote, or a proxy in front of it, puts there.
Envs ==
    { [net |-> "ok", verdict |-> "accept", errF |-> "absent", pw |-> "masked",
       msg |-> "", echo |-> FALSE, status |-> TRUE, code |-> 200],
      [net |-> "ok", verdict |-> "accept", errF |-> "empty", pw |-> "stored",
       msg |-> "", echo |-> FALSE, status |-> TRUE, code |-> 200],
      [net |-> "ok", verdict |-> "accept", errF |-> "number", pw |-> "empty",
       msg |-> "", echo |-> FALSE, status |-> TRUE, code |-> 200],
      [net |-> "ok", verdict |-> "accept", errF |-> "absent", pw |-> "masked",
       msg |-> "", echo |-> FALSE, status |-> FALSE, code |-> 500],
      [net |-> "ok", verdict |-> "reject", errF |-> "absent", pw |-> "empty",
       msg |-> "API Key Incorrect", echo |-> FALSE, status |-> FALSE, code |-> 403],
      [net |-> "ok", verdict |-> "reject", errF |-> "absent", pw |-> "masked",
       msg |-> "not implemented", echo |-> TRUE, status |-> FALSE, code |-> 200] }
    \cup { [net |-> n, verdict |-> "accept", errF |-> "absent", pw |-> "empty",
            msg |-> "", echo |-> FALSE, status |-> TRUE, code |-> 200] :
           n \in {"lost_request", "lost_response", "read_fail", "bad_body"} }

RemoteReached(env) == env.net \in {"ok", "lost_response", "read_fail"}

InvalidBody == [valid |-> FALSE]

ErrorObject(rem, params, env) ==
    LET base == IF env.echo THEN SuccessObject(rem, params, env.pw) ELSE EmptyParams
    IN ParamSet(ParamSet(base, "status", JB(FALSE)), "error", JS(env.msg))

\* One HTTP exchange: the remote configuration afterwards and the body the
\* client receives (none when the request or the response is lost).
Exchange(rem, params, env) ==
    [remote |-> IF RemoteReached(env) /\ env.verdict = "accept"
                THEN RemoteApply(rem, params) ELSE rem,
     body |-> IF env.net # "ok" THEN InvalidBody
              ELSE IF env.verdict = "reject"
                  THEN [valid |-> TRUE, code |-> env.code,
                        obj |-> ErrorObject(rem, params, env)]
              ELSE [valid |-> TRUE, code |-> env.code,
                    obj |-> WithStatus(WithErrorField(SuccessObject(rem, params, env.pw),
                                                      env.errF), env.status)]]

(***************************************************************************)
(* Transport: Client.doRequest.                                            *)
(***************************************************************************)
ApiKey == "key"

NoErr == [kind |-> "none", msg |-> ""]
TransportErr(m) == [kind |-> "transport", msg |-> m]
APIError(m) == [kind |-> "api", msg |-> m]
NotFoundErr(m) == [kind |-> "notfound", msg |-> m]

\* json.Unmarshal(body, &errorResp): fails unless the body is JSON whose
\* error member, when there is one, is a string.
ErrorRespDecodes(body) ==
    body.valid /\ ("error" \in DOMAIN body.obj => IsJS(body.obj["error"]))

ErrorRespError(body) ==
    IF "error" \in DOMAIN body.obj THEN body.obj["error"][2] ELSE ""

\* json.Unmarshal into a struct: a member of the wrong JSON type is an
\* error, an absent member leaves the zero value, unknown members are skipped.
StructDecodes(e, strKeys, intKeys) ==
    /\ \A k \in (DOMAIN e) \cap strKeys : IsJS(e[k])
    /\ \A k \in (DOMAIN e) \cap intKeys : IsJN(e[k])

StructValue(e, strKeys, intKeys) ==
    [k \in strKeys \cup intKeys |->
        IF k \in DOMAIN e THEN e[k][2] ELSE IF k \in strKeys THEN "" ELSE 0]

ZeroConfig == [misc |-> EmptyParams, servers |-> <<>>, categories |-> <<>>]

\* The decoding of GetConfigResponse as it would be if Config.Servers held
\* raw maps the way Config.Misc does.
ConfigDecodes_RawServers(obj) ==
    "config" \in DOMAIN obj =>
        LET c == obj["config"][2]
        IN \A i \in 1..Len(c.categories) :
               StructDecodes(c.categories[i], CategoryStringKeys, CategoryIntKeys)

\* json.Unmarshal(body, &GetConfigResponse{}).
ConfigDecodes(obj) ==
    "config" \in DOMAIN obj =>
        LET c == obj["config"][2]
        IN /\ \A i \in 1..Len(c.servers) :
                  StructDecodes(c.servers[i], ServerStringKeys, ServerIntKeys)
           /\ \A i \in 1..Len(c.categories) :
                  StructDecodes(c.categories[i], CategoryStringKeys, CategoryIntKeys)

ConfigValue(obj) ==
    IF "config" \notin DOMAIN obj THEN ZeroConfig
    ELSE LET c == obj["config"][2]
         IN [misc |-> c.misc,
             servers |-> [i \in 1..Len(c.servers) |->
                             StructValue(c.servers[i], ServerStringKeys, ServerIntKeys)],
             categories |-> [i \in 1..Len(c.categories) |->
                             StructValue(c.categories[i], CategoryStringKeys, CategoryIntKeys)]]

\* json.Unmarshal(body, result) for the result types the mappers use: "map"
\* (map[string]interface{}), "config" (GetConfigResponse) and the structs
\* with the one member version, categories or scripts.
ResultDecodes(body, resultType) ==
    /\ body.valid
    /\ resultType = "config" => ConfigDecodes(body.obj)
    /\ (resultType = "version" /\ "version" \in DOMAIN body.obj)
          => IsJS(body.obj["version"])
    /\ (resultType \in {"categories", "scripts"} /\ resultType \in DOMAIN body.obj)
          => IsStringArray(body.obj[resultType])

ResultValue(body, resultType) ==
    IF resultType = "config" THEN ConfigValue(body.obj)
    ELSE IF resultType = "version"
        THEN IF "version" \in DOMAIN body.obj THEN body.obj["version"][2] ELSE ""
    ELSE IF resultType \in {"categories", "scripts"}
        THEN IF resultType \in DOMAIN body.obj
             THEN [i \in 1..Len(body.obj[resultType][2]) |-> body.obj[resultType][2][i][2]]
             ELSE <<>>
    ELSE body.obj

\* The request as sent: the caller's parameters with apikey and output set.
RequestParams(params) == ParamSet(ParamSet(params, "apikey", ApiKey), "output", "json")

\* doRequest as it would be if it decoded the result before looking at the
\* error member.
doRequest_DecodesFirst(net, body, resultType) ==
    IF net \in {"lost_request", "lost_response"}
        THEN [err |-> TransportErr("executing request"), result |-> EmptyParams]
    ELSE IF net = "read_fail"
        THEN [err |-> TransportErr("reading response body"), result |-> EmptyParams]
    ELSE IF ResultDecodes(body, resultType)
        THEN [err |-> NoErr, result |-> ResultValue(body, resultType)]
    ELSE IF ErrorRespDecodes(body) /\ ErrorRespError(body) # ""
        THEN [err |-> APIError(ErrorRespError(body)), result |-> EmptyParams]
    ELSE [err |-> TransportErr("decoding response"), result |-> EmptyParams]

\* doRequest as it would be if it returned every failure as an APIError.
doRequest_AllAPIErrors(net, body, resultType) ==
    IF net \in {"lost_request", "lost_response"}
        THEN [err |-> APIError("executing request"), result |-> EmptyParams]
    ELSE IF net = "read_fail"
        THEN [err |-> APIError("reading response body"), result |-> EmptyParams]
    ELSE IF ErrorRespDecodes(body) /\ ErrorRespError(body) # ""
        THEN [err |-> APIError(ErrorRespError(body)), result |-> EmptyParams]
    ELSE IF ~ResultDecodes(body, resultType)
        THEN [err |-> APIError("decoding response"), result |-> EmptyParams]
    ELSE [err |-> NoErr, result |-> ResultValue(body, resultType)]

\* doRequest as it would be if it took an HTTP status other than 200 or a
\* false status member for a failure.
doRequest_ChecksStatus(net, body, resultType) ==
    IF net \in {"lost_request", "lost_response"}
        THEN [err |-> TransportErr("executing request"), result |-> EmptyParams]
    ELSE IF net = "read_fail"
        THEN [err |-> TransportErr("reading response body"), result |-> EmptyParams]
    ELSE IF ErrorRespDecodes(body) /\ ErrorRespError(body) # ""
        THEN [err |-> APIError(ErrorRespError(body)), result |-> EmptyParams]
    ELSE IF body.valid /\ (body.code # 200 \/ ("status" \in DOMAIN body.obj
                                                /\ body.obj["status"] = JB(FALSE)))
        THEN [err |-> APIError("request failed"), result |-> EmptyParams]
    ELSE IF ~ResultDecodes(body, resultType)
        THEN [err |-> TransportErr("decoding response"), result |-> EmptyParams]
    ELSE [err |-> NoErr, result |-> ResultValue(body, resultType)]

doRequest(net, body, resultType) ==
    IF net \in {"lost_request", "lost_response"}
        THEN [err |-> TransportErr("executing request"), result |-> EmptyParams]
    ELSE IF net = "read_fail"
        THEN [err |-> TransportErr("reading response body"), result |-> EmptyParams]
    ELSE IF ErrorRespDecodes(body) /\ ErrorRespError(body) # ""
        THEN [err |-> APIError(ErrorRespError(body)), result |-> EmptyParams]
    ELSE IF ~ResultDecodes(body, resultType)
        THEN [err |-> TransportErr("decoding response"), result |-> EmptyParams]
    ELSE [err |-> NoErr, result |-> ResultValue(body, resultType)]

\* One client call: the request issued, the remote afterwards, the response
\* body and what doRequest returns for it.
\* doRequest as it would be if it sent the request once more after a
\* transport error.
Call_Retries(rem, params, resultType, env) ==
    LET req == RequestParams(params)
        x == Exchange(rem, req, env)
        r == doRequest(env.net, x.body, resultType)
        y == Exchange(x.remote, req, env)
    IN IF r.err.kind = "transport"
       THEN [req |-> req, reqs |-> <<req, req>>, remote |-> y.remote, body |-> y.body,
             err |-> r.err, result |-> r.result]
       ELSE [req |-> req, reqs |-> <<req>>, remote |-> x.remote, body |-> x.body,
             err |-> r.err, result |-> r.result]

Call(rem, params, resultType, env) ==
    LET req == RequestParams(params)
        x == Exchange(rem, req, env)
        r == doRequest(env.net, x.body, resultType)
    IN [req |-> req, reqs |-> <<req>>, remote |-> x.remote, body |-> x.body,
        err |-> r.err, result |-> r.result]

(***************************************************************************)
(* Provider configuration: SabnzbdProvider.Configure and NewClient.        *)
(***************************************************************************)
NoClient == <<>>

NewClient(baseURL, apiKey) == [baseURL |-> baseURL, apiKey |-> apiKey]

\* The effective value as it would be if an empty attribute counted as unset.
EffectiveValue_EmptyIsUnset(attr, envValue) ==
    IF attr # Null /\ ValueString(attr) # "" THEN ValueString(attr) ELSE envValue

\* The environment variable, replaced by the attribute unless that is null.
EffectiveValue(attr, envValue) ==
    IF attr # Null THEN ValueString(attr) ELSE envValue

\* SabnzbdProvider.Configure: the attribute errors it adds and what it hands
\* to resources and data sources.
Configure(config, environ) ==
    LET url == EffectiveValue(config.url, environ.SABNZBD_URL)
        apiKey == EffectiveValue(config.api_key, environ.SABNZBD_API_KEY)
        diags == (IF url = "" THEN {"url"} ELSE {})
                     \cup (IF apiKey = "" THEN {"api_key"} ELSE {})
        sabnzbdClient == IF diags # {} THEN NoClient ELSE NewClient(url, apiKey)
    IN [diags |-> diags, DataSourceData |-> sabnzbdClient, ResourceData |-> sabnzbdClient]

BaseURL == "http://localhost:8080"

\* Values of the url and api_key attributes and of the two environment
\* variables (os.Getenv gives "" for an unset variable).
ConfigURLs == {Null, StringValue(""), StringValue(BaseURL), StringValue("http://sab.lan:8080")}
ConfigKeys == {Null, StringValue(""), StringValue(ApiKey), StringValue("other-key")}
EnvURLs == {"", "http://env.lan:8080"}
EnvKeys == {"", "env-key"}

Unconfigured(config, environ) ==
    [phase |-> "new", config |-> config, environ |-> environ,
     diags |-> {}, DataSourceData |-> NoClient, ResourceData |-> NoClient]

Configured(config, environ) ==
    LET r == Configure(config, environ)
    IN [phase |-> "configured", config |-> config, environ |-> environ,
        diags |-> r.diags, DataSourceData |-> r.DataSourceData,
        ResourceData |-> r.ResourceData]

(***************************************************************************)
(* Host-side bookkeeping shared by the three resources.                    *)
(***************************************************************************)
Untracked == [tracked |-> FALSE]

NoBody == InvalidBody

\* The record of a completed lifecycle invocation: the handler, the plan or
\* the identity it was given, whether the remote held the resource when it
\* started, the requests it issued, the body received and the error returned.
Done(op, arg, present, reqs, body, err) ==
    [op |-> op, arg |-> arg, present |-> present, reqs |-> reqs, body |-> body, err |-> err]

Failed(op) == op.err.kind # "none"

(***************************************************************************)
(* NewsServer mapper: Client.SetServer / GetServer / DeleteServer.         *)
(***************************************************************************)
ServerNames == {"news1", "news2"}

ServerInputOf(data) ==
    [Name |-> ValueString(data.name), Host |-> ValueString(data.host),
     Port |-> ValueInt64(data.port), Username |-> ValueString(data.username),
     Password |-> ValueString(data.password),
     Connections |-> ValueInt64(data.connections), SSL |-> ValueBool(data.ssl),
     SSLVerify |-> ValueInt64(data.ssl_verify),
     SSLCiphers |-> ValueString(data.ssl_ciphers), Enable |-> ValueBool(data.enable),
     Optional |-> ValueBool(data.optional), Retention |-> ValueInt64(data.retention),
     Timeout |-> ValueInt64(data.timeout), Priority |-> ValueInt64(data.priority),
     Required |-> ValueBool(data.required), Notes |-> ValueString(data.notes)]

\* SetServer as it would be if it left out the strings that are empty.
SetServerParams_OmitsEmpty(input) ==
    LET p0 == [mode |-> "set_config", section |-> "servers", name |-> input.Name,
               host |-> input.Host, port |-> Itoa(input.Port),
               connections |-> Itoa(input.Connections),
               ssl |-> boolToInt(input.SSL), ssl_verify |-> Itoa(input.SSLVerify),
               enable |-> boolToInt(input.Enable),
               optional |-> boolToInt(input.Optional), retention |-> Itoa(input.Retention),
               timeout |-> Itoa(input.Timeout), priority |-> Itoa(input.Priority),
               required |-> boolToInt(input.Required)]
        p1 == ParamSetIf(input.Username # "", p0, "username", input.Username)
        p2 == ParamSetIf(input.Password # "", p1, "password", input.Password)
        p3 == ParamSetIf(input.SSLCiphers # "", p2, "ssl_ciphers", input.SSLCiphers)
    IN ParamSetIf(input.Notes # "", p3, "notes", input.Notes)

SetServerParams(input) ==
    [mode |-> "set_config", section |-> "servers", name |-> input.Name,
     host |-> input.Host, port |-> Itoa(input.Port), username |-> input.Username,
     password |-> input.Password, connections |-> Itoa(input.Connections),
     ssl |-> boolToInt(input.SSL), ssl_verify |-> Itoa(input.SSLVerify),
     ssl_ciphers |-> input.SSLCiphers, enable |-> boolToInt(input.Enable),
     optional |-> boolToInt(input.Optional), retention |-> Itoa(input.Retention),
     timeout |-> Itoa(input.Timeout), priority |-> Itoa(input.Priority),
     required |-> boolToInt(input.Required), notes |-> input.Notes]

\* SetServer as it would be if it refused to write a server it cannot find.
SetServer_ChecksPresence(rem, input, env) ==
    IF HasEntry(rem.servers, input.Name) THEN Call(rem, SetServerParams(input), "map", env)
    ELSE [Call(rem, [mode |-> "get_config"], "config", env)
             EXCEPT !.err = NotFoundErr("server not found"), !.result = Untracked]

\* SetServer as it would be if it wrote the account in a request of its own.
SetServer_TwoRequests(rem, input, env) ==
    LET all == SetServerParams(input)
        account == {"username", "password"}
        first == Call(rem, [k \in (DOMAIN all) \ account |-> all[k]], "map", env)
        second == Call(first.remote,
                       [k \in account \cup {"mode", "section", "name"} |-> all[k]], "map", env)
    IN IF Failed(first) THEN first
       ELSE [second EXCEPT !.reqs = first.reqs \o second.reqs]

SetServer(rem, input, env) == Call(rem, SetServerParams(input), "map", env)

GetConfig(rem, env) == Call(rem, [mode |-> "get_config"], "config", env)

\* The lookup as it would be if a later entry of the name replaced an
\* earlier one.
FindByName_Last(coll, name) ==
    IF \E i \in 1..Len(coll) : coll[i]["name"] = name
    THEN CHOOSE i \in 1..Len(coll) :
            /\ coll[i]["name"] = name
            /\ \A j \in (i + 1)..Len(coll) : coll[j]["name"] # name
    ELSE 0

\* Index of the first entry of that name, 0 when there is none.
FindByName(coll, name) ==
    IF \E i \in 1..Len(coll) : coll[i]["name"] = name
    THEN CHOOSE i \in 1..Len(coll) :
            /\ coll[i]["name"] = name
            /\ \A j \in 1..(i - 1) : coll[j]["name"] # name
    ELSE 0

\* GetServer as it would be if a missing name gave the zero Server.
GetServer_ZeroOnMissing(rem, name, env) ==
    LET c == GetConfig(rem, env)
        i == IF Failed(c) THEN 0 ELSE FindByName(c.result.servers, name)
    IN IF Failed(c) THEN [c EXCEPT !.result = Untracked]
       ELSE IF i = 0
           THEN [c EXCEPT !.result = StructValue(EmptyParams, ServerStringKeys, ServerIntKeys)]
       ELSE [c EXCEPT !.result = c.result.servers[i]]

GetServer(rem, name, env) ==
    LET c == GetConfig(rem, env)
        i == IF Failed(c) THEN 0 ELSE FindByName(c.result.servers, name)
    IN IF Failed(c) THEN [c EXCEPT !.result = Untracked]
       ELSE IF i = 0 THEN [c EXCEPT !.err = NotFoundErr("server not found"),
                                    !.result = Untracked]
       ELSE [c EXCEPT !.result = c.result.servers[i]]

\* DeleteServer as it would be if it named the wrong section.
DeleteServerParams_WrongSection(name) ==
    [mode |-> "del_config", section |-> "categories", keyword |-> name]

DeleteServerParams(name) ==
    [mode |-> "del_config", section |-> "servers", keyword |-> name]

\* DeleteServer as it would be if it looked the name up before deleting.
DeleteServer_ChecksPresence(rem, name, env) ==
    IF HasEntry(rem.servers, name) THEN Call(rem, DeleteServerParams(name), "map", env)
    ELSE [GetConfig(rem, env) EXCEPT !.err = NotFoundErr("server not found"),
                                     !.result = Untracked]

DeleteServer(rem, name, env) == Call(rem, DeleteServerParams(name), "map", env)

(***************************************************************************)
(* sabnzbd_server resource: ServerResource.Create / Read / Update /        *)
(* Delete / ImportState.                                                   *)
(***************************************************************************)
ServerData(name, host, port, username, password, connections, ssl, ssl_verify, ssl_ciphers, enable, optional, retention, timeout, priority, required, notes) ==
    [tracked |-> TRUE, pending |-> FALSE,
     name |-> StringValue(name), host |-> StringValue(host), port |-> Int64Value(port),
     username |-> StringValue(username), password |-> StringValue(password),
     connections |-> Int64Value(connections), ssl |-> BoolValue(ssl),
     ssl_verify |-> Int64Value(ssl_verify), ssl_ciphers |-> StringValue(ssl_ciphers),
     enable |-> BoolValue(enable), optional |-> BoolValue(optional),
     retention |-> Int64Value(retention), timeout |-> Int64Value(timeout),
     priority |-> Int64Value(priority), required |-> BoolValue(required),
     notes |-> StringValue(notes)]

\* Plans the host can hand to Create and Update: the schema defaults and a
\* plan that sets every attribute, the password included.
ServerPlans ==
    { ServerData(n, "n.example.com", 563, "", "", 8, TRUE, 2, "", TRUE, FALSE,
                 0, 60, 0, FALSE, "") : n \in ServerNames }
    \cup { ServerData(n, "news.example.org", 119, "alice", "secret", 20, FALSE, 0,
                      "AES128", FALSE, TRUE, 30, 120, 1, TRUE, "backup") : n \in ServerNames }

\* State after ImportStatePassthroughID: the identifier under name, the
\* other attributes null, to be confirmed by the Read the host runs next.
ServerImported(id) ==
    [tracked |-> TRUE, pending |-> TRUE,
     name |-> StringValue(id), host |-> Null, port |-> Null, username |-> Null,
     password |-> Null, connections |-> Null, ssl |-> Null, ssl_verify |-> Null,
     ssl_ciphers |-> Null, enable |-> Null, optional |-> Null, retention |-> Null,
     timeout |-> Null, priority |-> Null, required |-> Null, notes |-> Null]

\* ServerResource.Read as it would be if it also took the password from the
\* response.
ServerReadData_TakesPassword(data, server) ==
    [data EXCEPT
        !.pending = FALSE,
        !.host = StringValue(server["host"]),
        !.port = Int64Value(server["port"]),
        !.username = StringValue(server["username"]),
        !.password = StringValue(server["password"]),
        !.connections = Int64Value(server["connections"]),
        !.ssl = BoolValue(server["ssl"] = 1),
        !.ssl_verify = Int64Value(server["ssl_verify"]),
        !.ssl_ciphers = StringValue(server["ssl_ciphers"]),
        !.enable = BoolValue(server["enable"] = 1),
        !.optional = BoolValue(server["optional"] = 1),
        !.retention = Int64Value(server["retention"]),
        !.timeout = Int64Value(server["timeout"]),
        !.priority = Int64Value(server["priority"]),
        !.required = BoolValue(server["required"] = 1),
        !.notes = StringValue(server["notes"])]

\* The assignments of ServerResource.Read to the state it loaded.
ServerReadData(data, server) ==
    [data EXCEPT
        !.pending = FALSE,
        !.host = StringValue(server["host"]),
        !.port = Int64Value(server["port"]),
        !.username = StringValue(server["username"]),
        !.connections = Int64Value(server["connections"]),
        !.ssl = BoolValue(server["ssl"] = 1),
        !.ssl_verify = Int64Value(server["ssl_verify"]),
        !.ssl_ciphers = StringValue(server["ssl_ciphers"]),
        !.enable = BoolValue(server["enable"] = 1),
        !.optional = BoolValue(server["optional"] = 1),
        !.retention = Int64Value(server["retention"]),
        !.timeout = Int64Value(server["timeout"]),
        !.priority = Int64Value(server["priority"]),
        !.required = BoolValue(server["required"] = 1),
        !.notes = StringValue(server["notes"])]

\* The name attribute as it would be without its plan modifier.
RequiresReplace_Never(prior, plan) == FALSE

\* The plan modifier on name: a plan whose name differs from the name in
\* state is carried out as Delete followed by Create, never as Update.
RequiresReplace(prior, plan) == plan.name # prior.name

\* Room in the remote collection for an entry of that name.
HasRoom(coll, name) == HasEntry(coll, name) \/ Len(coll) < MaxEntries

ServerCreate ==
    /\ managed = "server"
    /\ ~srvState.tracked
    /\ \E plan \in ServerPlans, env \in Envs :
        /\ HasRoom(remote.servers, ValueString(plan.name))
        /\ \E c \in {SetServer(remote, ServerInputOf(plan), env)} :
              /\ remote' = c.remote
              /\ srvState' = IF Failed(c) THEN srvState ELSE plan
              /\ lastOp' = Done("ServerCreate", plan,
                            HasEntry(remote.servers, ValueString(plan.name)), c.reqs, c.body, c.err)
    /\ UNCHANGED <<provider, tasks, cfgState, managed, catState, fldState>>

\* ServerResource.Read as it would be if it removed the resource from state
\* when the server is not found.
ServerRead_RemovesMissing ==
    /\ managed = "server"
    /\ srvState.tracked
    /\ \E env \in Envs :
        \E c \in {GetServer(remote, ValueString(srvState.name), env)} :
           /\ remote' = c.remote
           /\ srvState' = IF ~Failed(c) THEN ServerReadData(srvState, c.result)
                          ELSE IF srvState.pending \/ c.err.kind = "notfound" THEN Untracked
                          ELSE srvState
           /\ lastOp' = Done("ServerRead", srvState.name,
                            HasEntry(remote.servers, ValueString(srvState.name)), c.reqs, c.body, c.err)
    /\ UNCHANGED <<provider, tasks, cfgState, managed, catState, fldState>>

ServerRead ==
    /\ managed = "server"
    /\ srvState.tracked
    /\ \E env \in Envs :
        \E c \in {GetServer(remote, ValueString(srvState.name), env)} :
           /\ remote' = c.remote
           /\ srvState' = IF ~Failed(c) THEN ServerReadData(srvState, c.result)
                          ELSE IF srvState.pending THEN Untracked
                          ELSE srvState
           /\ lastOp' = Done("ServerRead", srvState.name,
                            HasEntry(remote.servers, ValueString(srvState.name)), c.reqs, c.body, c.err)
    /\ UNCHANGED <<provider, tasks, cfgState, managed, catState, fldState>>

ServerUpdate ==
    /\ managed = "server"
    /\ srvState.tracked /\ ~srvState.pending
    /\ \E plan \in ServerPlans, env \in Envs :
        /\ ~RequiresReplace(srvState, plan)
        /\ HasRoom(remote.servers, ValueString(plan.name))
        /\ \E c \in {SetServer(remote, ServerInputOf(plan), env)} :
              /\ remote' = c.remote
              /\ srvState' = IF Failed(c) THEN srvState ELSE plan
              /\ lastOp' = Done("ServerUpdate", plan,
                            HasEntry(remote.servers, ValueString(plan.name)), c.reqs, c.body, c.err)
    /\ UNCHANGED <<provider, tasks, cfgState, managed, catState, fldState>>

ServerDelete ==
    /\ managed = "server"
    /\ srvState.tracked /\ ~srvState.pending
    /\ \E env \in Envs :
        \E c \in {DeleteServer(remote, ValueString(srvState.name), env)} :
           /\ remote' = c.remote
           /\ srvState' = IF Failed(c) THEN srvState ELSE Untracked
           /\ lastOp' = Done("ServerDelete", srvState.name,
                            HasEntry(remote.servers, ValueString(srvState.name)), c.reqs, c.body, c.err)
    /\ UNCHANGED <<provider, tasks, cfgState, managed, catState, fldState>>

ServerImportState ==
    /\ managed = "server"
    /\ ~srvState.tracked
    /\ \E id \in ServerNames :
        /\ srvState' = ServerImported(id)
        /\ lastOp' = Done("ServerImportState", StringValue(id), TRUE, <<>>, NoBody, NoErr)
    /\ UNCHANGED <<provider, tasks, cfgState, managed, remote, catState, fldState>>

(***************************************************************************)
(* Category mapper and sabnzbd_category resource.                          *)
(***************************************************************************)
CategoryNames == {"*", "movies"}

CategoryInputOf(data) ==
    [Name |-> ValueString(data.name), Dir |-> ValueString(data.dir),
     Script |-> ValueString(data.script), Priority |-> ValueInt64(data.priority),
     PP |-> ValueString(data.pp), Order |-> ValueInt64(data.order)]

\* SetCategory as it would be if it left out the display order.
SetCategoryParams_WithoutOrder(input) ==
    [mode |-> "set_config", section |-> "categories", name |-> input.Name,
     dir |-> input.Dir, script |-> input.Script, priority |-> Itoa(input.Priority),
     pp |-> input.PP]

\* SetCategory as it would be if it sent only the non-empty texts, the way
\* SetFolders does.
SetCategoryParams_OmitsEmpty(input) ==
    LET p0 == [mode |-> "set_config", section |-> "categories", name |-> input.Name,
               priority |-> Itoa(input.Priority), order |-> Itoa(input.Order)]
        p1 == ParamSetIf(input.Dir # "", p0, "dir", input.Dir)
        p2 == ParamSetIf(input.Script # "", p1, "script", input.Script)
    IN ParamSetIf(input.PP # "", p2, "pp", input.PP)

SetCategoryParams(input) ==
    [mode |-> "set_config", section |-> "categories", name |-> input.Name,
     dir |-> input.Dir, script |-> input.Script, priority |-> Itoa(input.Priority),
     pp |-> input.PP, order |-> Itoa(input.Order)]

SetCategory(rem, input, env) == Call(rem, SetCategoryParams(input), "map", env)

GetCategory(rem, name, env) ==
    LET c == GetConfig(rem, env)
        i == IF Failed(c) THEN 0 ELSE FindByName(c.result.categories, name)
    IN IF Failed(c) THEN [c EXCEPT !.result = Untracked]
       ELSE IF i = 0 THEN [c EXCEPT !.err = NotFoundErr("category not found"),
                                    !.result = Untracked]
       ELSE [c EXCEPT !.result = c.result.categories[i]]

DeleteCategoryParams(name) ==
    [mode |-> "del_config", section |-> "categories", keyword |-> name]

DeleteCategory(rem, name, env) == Call(rem, DeleteCategoryParams(name), "map", env)

CategoryData(name, dir, script, priority, pp, order) ==
    [tracked |-> TRUE, pending |-> FALSE,
     name |-> StringValue(name), dir |-> StringValue(dir),
     script |-> StringValue(script), priority |-> Int64Value(priority),
     pp |-> StringValue(pp), order |-> Int64Value(order)]

\* Plans for Create and Update: the schema defaults and a plan that sets
\* every attribute.
CategoryPlans ==
    { CategoryData(n, "", "None", -100, "", 0) : n \in CategoryNames }
    \cup { CategoryData(n, "Movies", "notify.py", 2, "3", 12) : n \in CategoryNames }

CategoryImported(id) ==
    [tracked |-> TRUE, pending |-> TRUE,
     name |-> StringValue(id), dir |-> Null, script |-> Null, priority |-> Null,
     pp |-> Null, order |-> Null]

\* The assignments of CategoryResource.Read to the state it loaded.
CategoryReadData(data, category) ==
    [data EXCEPT
        !.pending = FALSE,
        !.dir = StringValue(category["dir"]),
        !.script = StringValue(category["script"]),
        !.priority = Int64Value(category["priority"]),
        !.pp = StringValue(category["pp"]),
        !.order = Int64Value(category["order"])]

CategoryCreate ==
    /\ managed = "category"
    /\ ~catState.tracked
    /\ \E plan \in CategoryPlans, env \in Envs :
        /\ HasRoom(remote.categories, ValueString(plan.name))
        /\ \E c \in {SetCategory(remote, CategoryInputOf(plan), env)} :
              /\ remote' = c.remote
              /\ catState' = IF Failed(c) THEN catState ELSE plan
              /\ lastOp' = Done("CategoryCreate", plan,
                            HasEntry(remote.categories, ValueString(plan.name)), c.reqs, c.body, c.err)
    /\ UNCHANGED <<provider, tasks, cfgState, managed, srvState, fldState>>

CategoryRead ==
    /\ managed = "category"
    /\ catState.tracked
    /\ \E env \in Envs :
        \E c \in {GetCategory(remote, ValueString(catState.name), env)} :
           /\ remote' = c.remote
           /\ catState' = IF ~Failed(c) THEN CategoryReadData(catState, c.result)
                          ELSE IF catState.pending THEN Untracked
                          ELSE catState
           /\ lastOp' = Done("CategoryRead", catState.name,
                            HasEntry(remote.categories, ValueString(catState.name)), c.reqs, c.body, c.err)
    /\ UNCHANGED <<provider, tasks, cfgState, managed, srvState, fldState>>

CategoryUpdate ==
    /\ managed = "category"
    /\ catState.tracked /\ ~catState.pending
    /\ \E plan \in CategoryPlans, env \in Envs :
        /\ ~RequiresReplace(catState, plan)
        /\ HasRoom(remote.categories, ValueString(plan.name))
        /\ \E c \in {SetCategory(remote, CategoryInputOf(plan), env)} :
              /\ remote' = c.remote
              /\ catState' = IF Failed(c) THEN catState ELSE plan
              /\ lastOp' = Done("CategoryUpdate", plan,
                            HasEntry(remote.categories, ValueString(plan.name)), c.reqs, c.body, c.err)
    /\ UNCHANGED <<provider, tasks, cfgState, managed, srvState, fldState>>

CategoryDelete ==
    /\ managed = "category"
    /\ catState.tracked /\ ~catState.pending
    /\ \E env \in Envs :
        \E c \in {DeleteCategory(remote, ValueString(catState.name), env)} :
           /\ remote' = c.remote
           /\ catState' = IF Failed(c) THEN catState ELSE Untracked
           /\ lastOp' = Done("CategoryDelete", catState.name,
                            HasEntry(remote.categories, ValueString(catState.name)), c.reqs, c.body, c.err)
    /\ UNCHANGED <<provider, tasks, cfgState, managed, srvState, fldState>>

CategoryImportState ==
    /\ managed = "category"
    /\ ~catState.tracked
    /\ \E id \in CategoryNames :
        /\ catState' = CategoryImported(id)
        /\ lastOp' = Done("CategoryImportState", StringValue(id), TRUE, <<>>, NoBody, NoErr)
    /\ UNCHANGED <<provider, tasks, cfgState, managed, remote, srvState, fldState>>

(***************************************************************************)
(* Folders mapper (Client.SetFolders / GetFolders) and sabnzbd_folders     *)
(* resource.                                                               *)
(***************************************************************************)
FoldersInputOf(data) ==
    [DownloadDir |-> ValueString(data.download_dir),
     DownloadFree |-> ValueString(data.download_free),
     CompleteDir |-> ValueString(data.complete_dir),
     CompleteFree |-> ValueString(data.complete_free),
     AutoResume |-> ValueBool(data.auto_resume),
     Permissions |-> ValueString(data.permissions),
     WatchedDir |-> ValueString(data.watched_dir),
     WatchedDirScanSpeed |-> ValueInt64(data.watched_dir_scan_speed),
     ScriptsDir |-> ValueString(data.scripts_dir),
     EmailTemplatesDir |-> ValueString(data.email_templates_dir),
     PasswordFile |-> ValueString(data.password_file),
     NzbBackupDir |-> ValueString(data.nzb_backup_dir),
     AdminDir |-> ValueString(data.admin_dir),
     BackupDir |-> ValueString(data.backup_dir),
     LogDir |-> ValueString(data.log_dir)]

\* SetFolders as it would be if it sent every field unconditionally, the
\* way SetServer and SetCategory do.
SetFoldersParams_SendsAll(input) ==
    [mode |-> "set_config", section |-> "misc",
     download_dir |-> input.DownloadDir, download_free |-> input.DownloadFree,
     complete_dir |-> input.CompleteDir, complete_free |-> input.CompleteFree,
     auto_resume |-> boolToInt(input.AutoResume), permissions |-> input.Permissions,
     dirscan_dir |-> input.WatchedDir,
     dirscan_speed |-> Itoa(IF input.WatchedDirScanSpeed >= 0
                            THEN input.WatchedDirScanSpeed ELSE 0),
     script_dir |-> input.ScriptsDir, email_dir |-> input.EmailTemplatesDir,
     password_file |-> input.PasswordFile, nzb_backup_dir |-> input.NzbBackupDir,
     admin_dir |-> input.AdminDir, backup_dir |-> input.BackupDir,
     log_dir |-> input.LogDir]

\* SetFolders as it would be if it sent the scan speed only when positive.
SetFoldersParams_PositiveSpeedOnly(input) ==
    LET p0 == [mode |-> "set_config", section |-> "misc"]
        p1 == ParamSetIf(input.DownloadDir # "", p0, "download_dir", input.DownloadDir)
        p2 == ParamSetIf(input.DownloadFree # "", p1, "download_free", input.DownloadFree)
        p3 == ParamSetIf(input.CompleteDir # "", p2, "complete_dir", input.CompleteDir)
        p4 == ParamSetIf(input.CompleteFree # "", p3, "complete_free", input.CompleteFree)
        p5 == ParamSet(p4, "auto_resume", boolToInt(input.AutoResume))
        p6 == ParamSetIf(input.Permissions # "", p5, "permissions", input.Permissions)
        p7 == ParamSetIf(input.WatchedDir # "", p6, "dirscan_dir", input.WatchedDir)
        p8 == ParamSetIf(input.WatchedDirScanSpeed > 0, p7, "dirscan_speed",
                         Itoa(input.WatchedDirScanSpeed))
        p9 == ParamSetIf(input.ScriptsDir # "", p8, "script_dir", input.ScriptsDir)
        p10 == ParamSetIf(input.EmailTemplatesDir # "", p9, "email_dir", input.EmailTemplatesDir)
        p11 == ParamSetIf(input.PasswordFile # "", p10, "password_file", input.PasswordFile)
        p12 == ParamSetIf(input.NzbBackupDir # "", p11, "nzb_backup_dir", input.NzbBackupDir)
        p13 == ParamSetIf(input.AdminDir # "", p12, "admin_dir", input.AdminDir)
        p14 == ParamSetIf(input.BackupDir # "", p13, "backup_dir", input.BackupDir)
    IN ParamSetIf(input.LogDir # "", p14, "log_dir", input.LogDir)

SetFoldersParams(input) ==
    LET p0 == [mode |-> "set_config", section |-> "misc"]
        p1 == ParamSetIf(input.DownloadDir # "", p0, "download_dir", input.DownloadDir)
        p2 == ParamSetIf(input.DownloadFree # "", p1, "download_free", input.DownloadFree)
        p3 == ParamSetIf(input.CompleteDir # "", p2, "complete_dir", input.CompleteDir)
        p4 == ParamSetIf(input.CompleteFree # "", p3, "complete_free", input.CompleteFree)
        p5 == ParamSet(p4, "auto_resume", boolToInt(input.AutoResume))
        p6 == ParamSetIf(input.Permissions # "", p5, "permissions", input.Permissions)
        p7 == ParamSetIf(input.WatchedDir # "", p6, "dirscan_dir", input.WatchedDir)
        p8 == ParamSetIf(input.WatchedDirScanSpeed >= 0, p7, "dirscan_speed",
                         Itoa(input.WatchedDirScanSpeed))
        p9 == ParamSetIf(input.ScriptsDir # "", p8, "script_dir", input.ScriptsDir)
        p10 == ParamSetIf(input.EmailTemplatesDir # "", p9, "email_dir", input.EmailTemplatesDir)
        p11 == ParamSetIf(input.PasswordFile # "", p10, "password_file", input.PasswordFile)
        p12 == ParamSetIf(input.NzbBackupDir # "", p11, "nzb_backup_dir", input.NzbBackupDir)
        p13 == ParamSetIf(input.AdminDir # "", p12, "admin_dir", input.AdminDir)
        p14 == ParamSetIf(input.BackupDir # "", p13, "backup_dir", input.BackupDir)
    IN ParamSetIf(input.LogDir # "", p14, "log_dir", input.LogDir)

FoldersStringAttrs ==
    {"download_dir", "download_free", "complete_dir", "complete_free", "permissions",
     "watched_dir", "scripts_dir", "email_templates_dir", "password_file",
     "nzb_backup_dir", "admin_dir", "backup_dir", "log_dir"}

\* The misc key (the json tag of Folders) behind each attribute.
FoldersKey(attr) ==
    IF attr = "watched_dir" THEN "dirscan_dir"
    ELSE IF attr = "watched_dir_scan_speed" THEN "dirscan_speed"
    ELSE IF attr = "scripts_dir" THEN "script_dir"
    ELSE IF attr = "email_templates_dir" THEN "email_dir"
    ELSE attr

SetFolders(rem, input, env) == Call(rem, SetFoldersParams(input), "map", env)

\* misc[k].(string) and misc[k].(float64): the value when the key is
\* present with that JSON type, the zero value otherwise.
MiscString(misc, k) == IF k \in DOMAIN misc /\ IsJS(misc[k]) THEN misc[k][2] ELSE ""
MiscInt(misc, k) == IF k \in DOMAIN misc /\ IsJN(misc[k]) THEN misc[k][2] ELSE 0

FoldersOf(misc) ==
    [k \in MiscStringKeys \cup MiscIntKeys |->
        IF k \in MiscIntKeys THEN MiscInt(misc, k) ELSE MiscString(misc, k)]

\* GetFolders as it would be if a misc key that is absent or of another
\* type failed the call the way a mistyped struct field does.
GetFolders_Strict(rem, env) ==
    LET c == GetConfig(rem, env)
        typed == /\ \A k \in MiscStringKeys : k \in DOMAIN c.result.misc /\ IsJS(c.result.misc[k])
                 /\ \A k \in MiscIntKeys : k \in DOMAIN c.result.misc /\ IsJN(c.result.misc[k])
    IN IF Failed(c) THEN [c EXCEPT !.result = Untracked]
       ELSE IF ~typed THEN [c EXCEPT !.err = TransportErr("decoding response"),
                                     !.result = Untracked]
       ELSE [c EXCEPT !.result = FoldersOf(c.result.misc)]

GetFolders(rem, env) ==
    LET c == GetConfig(rem, env)
    IN IF Failed(c) THEN [c EXCEPT !.result = Untracked]
       ELSE [c EXCEPT !.result = FoldersOf(c.result.misc)]

FoldersID == "folders"

FoldersData(id, download_dir, download_free, complete_dir, complete_free, auto_resume, permissions, watched_dir, watched_dir_scan_speed, scripts_dir, email_templates_dir, password_file, nzb_backup_dir, admin_dir, backup_dir, log_dir) ==
    [tracked |-> TRUE, pending |-> FALSE, id |-> id,
     download_dir |-> StringValue(download_dir),
     download_free |-> StringValue(download_free),
     complete_dir |-> StringValue(complete_dir),
     complete_free |-> StringValue(complete_free),
     auto_resume |-> BoolValue(auto_resume),
     permissions |-> StringValue(permissions),
     watched_dir |-> StringValue(watched_dir),
     watched_dir_scan_speed |-> Int64Value(watched_dir_scan_speed),
     scripts_dir |-> StringValue(scripts_dir),
     email_templates_dir |-> StringValue(email_templates_dir),
     password_file |-> StringValue(password_file),
     nzb_backup_dir |-> StringValue(nzb_backup_dir),
     admin_dir |-> StringValue(admin_dir),
     backup_dir |-> StringValue(backup_dir),
     log_dir |-> StringValue(log_dir)]

\* Planned attribute values (the id is computed): the schema defaults, the
\* README example, and a plan that empties what the example set and asks
\* for a negative scan interval.
FoldersPlanValues ==
    { FoldersData(Null, "", "", "", "", FALSE, "", "", 5, "", "", "", "",
                  "admin", "backup", "logs"),
      FoldersData(Null, "/data/incomplete", "10G", "/data/complete", "20G", TRUE, "755",
                  "/data/nzb-watch", 0, "/config/scripts", "", "", "",
                  "admin", "backup", "logs"),
      FoldersData(Null, "/tmp/incomplete", "", "", "", FALSE, "", "", -1, "", "",
                  "/config/passwords.txt", "", "", "", "") }

\* The plan the host builds: id unknown on create, the state's id on update.
FoldersPlans(id) == { [p EXCEPT !.id = id] : p \in FoldersPlanValues }

FoldersImportIds == {"folders", "imported-misc"}

FoldersImported(id) ==
    [FoldersData(StringValue(id), "", "", "", "", FALSE, "", "", 0, "", "", "", "", "", "", "")
        EXCEPT !.pending = TRUE,
               !.download_dir = Null, !.download_free = Null, !.complete_dir = Null,
               !.complete_free = Null, !.auto_resume = Null, !.permissions = Null,
               !.watched_dir = Null, !.watched_dir_scan_speed = Null,
               !.scripts_dir = Null, !.email_templates_dir = Null,
               !.password_file = Null, !.nzb_backup_dir = Null, !.admin_dir = Null,
               !.backup_dir = Null, !.log_dir = Null]

\* FoldersResource.Read as it would be if it kept the id it loaded.
FoldersReadData_KeepsId(data, folders) ==
    [data EXCEPT
        !.pending = FALSE,
        !.download_dir = StringValue(folders["download_dir"]),
        !.download_free = StringValue(folders["download_free"]),
        !.complete_dir = StringValue(folders["complete_dir"]),
        !.complete_free = StringValue(folders["complete_free"]),
        !.auto_resume = BoolValue(folders["auto_resume"] = 1),
        !.permissions = StringValue(folders["permissions"]),
        !.watched_dir = StringValue(folders["dirscan_dir"]),
        !.watched_dir_scan_speed = Int64Value(folders["dirscan_speed"]),
        !.scripts_dir = StringValue(folders["script_dir"]),
        !.email_templates_dir = StringValue(folders["email_dir"]),
        !.password_file = StringValue(folders["password_file"]),
        !.nzb_backup_dir = StringValue(folders["nzb_backup_dir"]),
        !.admin_dir = StringValue(folders["admin_dir"]),
        !.backup_dir = StringValue(folders["backup_dir"]),
        !.log_dir = StringValue(folders["log_dir"])]

\* The assignments of FoldersResource.Read to the state it loaded.
FoldersReadData(data, folders) ==
    [data EXCEPT
        !.pending = FALSE,
        !.id = StringValue(FoldersID),
        !.download_dir = StringValue(folders["download_dir"]),
        !.download_free = StringValue(folders["download_free"]),
        !.complete_dir = StringValue(folders["complete_dir"]),
        !.complete_free = StringValue(folders["complete_free"]),
        !.auto_resume = BoolValue(folders["auto_resume"] = 1),
        !.permissions = StringValue(folders["permissions"]),
        !.watched_dir = StringValue(folders["dirscan_dir"]),
        !.watched_dir_scan_speed = Int64Value(folders["dirscan_speed"]),
        !.scripts_dir = StringValue(folders["script_dir"]),
        !.email_templates_dir = StringValue(folders["email_dir"]),
        !.password_file = StringValue(folders["password_file"]),
        !.nzb_backup_dir = StringValue(folders["nzb_backup_dir"]),
        !.admin_dir = StringValue(folders["admin_dir"]),
        !.backup_dir = StringValue(folders["backup_dir"]),
        !.log_dir = StringValue(folders["log_dir"])]

\* data.ID = types.StringValue("folders") in Create and Update.
FoldersWritten(plan) == [plan EXCEPT !.id = StringValue(FoldersID)]

\* FoldersResource.Create as it would be if it read the folders back after
\* the write and stored what the remote holds.
FoldersCreate_ReadsBack ==
    /\ managed = "folders"
    /\ ~fldState.tracked
    /\ \E plan \in FoldersPlans(Null), env \in Envs :
        \E c \in {SetFolders(remote, FoldersInputOf(plan), env)} :
           /\ remote' = c.remote
           /\ fldState' = IF Failed(c) THEN fldState
                          ELSE FoldersReadData(FoldersWritten(plan), FoldersOf(c.remote.misc))
           /\ lastOp' = Done("FoldersCreate", plan, TRUE, c.reqs, c.body, c.err)
    /\ UNCHANGED <<provider, tasks, cfgState, managed, srvState, catState>>

FoldersCreate ==
    /\ managed = "folders"
    /\ ~fldState.tracked
    /\ \E plan \in FoldersPlans(Null), env \in Envs :
        \E c \in {SetFolders(remote, FoldersInputOf(plan), env)} :
           /\ remote' = c.remote
           /\ fldState' = IF Failed(c) THEN fldState ELSE FoldersWritten(plan)
           /\ lastOp' = Done("FoldersCreate", plan, TRUE, c.reqs, c.body, c.err)
    /\ UNCHANGED <<provider, tasks, cfgState, managed, srvState, catState>>

FoldersRead ==
    /\ managed = "folders"
    /\ fldState.tracked
    /\ \E env \in Envs :
        \E c \in {GetFolders(remote, env)} :
           /\ remote' = c.remote
           /\ fldState' = IF ~Failed(c) THEN FoldersReadData(fldState, c.result)
                          ELSE IF fldState.pending THEN Untracked
                          ELSE fldState
           /\ lastOp' = Done("FoldersRead", fldState.id, TRUE, c.reqs, c.body, c.err)
    /\ UNCHANGED <<provider, tasks, cfgState, managed, srvState, catState>>

FoldersUpdate ==
    /\ managed = "folders"
    /\ fldState.tracked /\ ~fldState.pending
    /\ \E plan \in FoldersPlans(fldState.id), env \in Envs :
        \E c \in {SetFolders(remote, FoldersInputOf(plan), env)} :
           /\ remote' = c.remote
           /\ fldState' = IF Failed(c) THEN fldState ELSE FoldersWritten(plan)
           /\ lastOp' = Done("FoldersUpdate", plan, TRUE, c.reqs, c.body, c.err)
    /\ UNCHANGED <<provider, tasks, cfgState, managed, srvState, catState>>

\* FoldersResource.Delete as it would be if it reset the folders remotely.
FoldersDeleteCall_Resets(rem) ==
    Call(rem,
         [mode |-> "set_config", section |-> "misc", download_dir |-> "Downloads/incomplete",
          complete_dir |-> "Downloads/complete"],
         "map",
         [net |-> "ok", verdict |-> "accept", errF |-> "absent", pw |-> "masked",
          msg |-> "", echo |-> FALSE, status |-> TRUE, code |-> 200])

\* The handler only logs; the host then drops the state.
FoldersDeleteCall(rem) ==
    [req |-> EmptyParams, reqs |-> <<>>, remote |-> rem, body |-> NoBody, err |-> NoErr,
     result |-> EmptyParams]

FoldersDelete ==
    /\ managed = "folders"
    /\ fldState.tracked /\ ~fldState.pending
    /\ \E c \in {FoldersDeleteCall(remote)} :
          /\ remote' = c.remote
          /\ fldState' = IF Failed(c) THEN fldState ELSE Untracked
          /\ lastOp' = Done("FoldersDelete", fldState.id, TRUE, c.reqs, c.body, c.err)
    /\ UNCHANGED <<provider, tasks, cfgState, managed, srvState, catState>>

FoldersImportState ==
    /\ managed = "folders"
    /\ ~fldState.tracked
    /\ \E id \in FoldersImportIds :
        /\ fldState' = FoldersImported(id)
        /\ lastOp' = Done("FoldersImportState", StringValue(id), TRUE, <<>>, NoBody, NoErr)
    /\ UNCHANGED <<provider, tasks, cfgState, managed, remote, srvState, catState>>

(***************************************************************************)
(* sabnzbd_config data source: ConfigDataSource.Read and the client calls  *)
(* GetVersion, GetCategories and GetScripts.                               *)
(***************************************************************************)
GetVersion(rem, env) == Call(rem, [mode |-> "version"], "version", env)

\* GetCategories as it would be if it took the names from the snapshot.
GetCategories_FromSnapshot(rem, env) ==
    LET c == GetConfig(rem, env)
    IN IF Failed(c) THEN c
       ELSE [c EXCEPT !.result = [i \in 1..Len(c.result.categories) |->
                                     c.result.categories[i]["name"]]]

GetCategories(rem, env) == Call(rem, [mode |-> "get_cats"], "categories", env)

GetScripts(rem, env) == Call(rem, [mode |-> "get_scripts"], "scripts", env)

ConfigID == "sabnzbd-config"

ConfigData(version, categories, scripts) ==
    [tracked |-> TRUE, id |-> StringValue(ConfigID), version |-> StringValue(version),
     categories |-> [i \in 1..Len(categories) |-> StringValue(categories[i])],
     scripts |-> [i \in 1..Len(scripts) |-> StringValue(scripts[i])]]

\* Read as it would be if a failing get_scripts left the list of scripts
\* empty instead of failing the Read.
ConfigReadCalls_ScriptsOptional(rem, env1, env2, env3) ==
    LET v == GetVersion(rem, env1)
        c == GetCategories(v.remote, env2)
        x == GetScripts(c.remote, env3)
    IN IF Failed(v) THEN [v EXCEPT !.result = Untracked]
       ELSE IF Failed(c) THEN [c EXCEPT !.reqs = v.reqs \o c.reqs, !.result = Untracked]
       ELSE [x EXCEPT !.reqs = v.reqs \o c.reqs \o x.reqs, !.err = NoErr,
                      !.result = ConfigData(v.result, c.result,
                                            IF Failed(x) THEN <<>> ELSE x.result)]

\* The three calls of Read in order, ending at the first that fails: the
\* requests issued, the remote afterwards, the last body and error, and the
\* state to set when all succeeded.
ConfigReadCalls(rem, env1, env2, env3) ==
    LET v == GetVersion(rem, env1)
        c == GetCategories(v.remote, env2)
        x == GetScripts(c.remote, env3)
    IN IF Failed(v) THEN [v EXCEPT !.result = Untracked]
       ELSE IF Failed(c) THEN [c EXCEPT !.reqs = v.reqs \o c.reqs, !.result = Untracked]
       ELSE IF Failed(x)
           THEN [x EXCEPT !.reqs = v.reqs \o c.reqs \o x.reqs, !.result = Untracked]
       ELSE [x EXCEPT !.reqs = v.reqs \o c.reqs \o x.reqs,
                      !.result = ConfigData(v.result, c.result, x.result)]

ConfigRead ==
    /\ managed = "config"
    /\ \E env1, env2, env3 \in Envs :
        \E c \in {ConfigReadCalls(remote, env1, env2, env3)} :
           /\ remote' = c.remote
           /\ cfgState' = IF Failed(c) THEN cfgState ELSE c.result
           /\ lastOp' = Done("ConfigRead", Null, TRUE, c.reqs, c.body, c.err)
    /\ UNCHANGED <<provider, tasks, managed, srvState, catState, fldState>>

(***************************************************************************)
(* Changes made to the remote by others (the SABnzbd web interface).       *)
(***************************************************************************)
\* An entry edited by hand: the flags hold integers other than 0 and 1.
ForeignServerParams(name) ==
    [name |-> name, host |-> "n.example.com", port |-> Itoa(119), username |-> "carol",
     password |-> "pw", connections |-> Itoa(4), ssl |-> Itoa(2), ssl_verify |-> Itoa(1),
     ssl_ciphers |-> "", enable |-> Itoa(1), optional |-> Itoa(0), retention |-> Itoa(0),
     timeout |-> Itoa(60), priority |-> Itoa(0), required |-> Itoa(2), notes |-> "by hand"]

ForeignCategoryParams(name) ==
    [name |-> name, dir |-> "Elsewhere", script |-> "None", priority |-> Itoa(-2),
     pp |-> "1", order |-> Itoa(3)]

\* A hand edit of misc: a key dropped, a number kept as text, a path changed.
ForeignMisc(misc) ==
    { [k \in (DOMAIN misc) \ {"password_file"} |->
          IF k = "dirscan_speed" THEN JS("5")
          ELSE IF k = "download_dir" THEN JS("/mnt/other")
          ELSE misc[k]] }

RemoteChange ==
    /\ \/ /\ managed = "server"
          /\ \E n \in ServerNames :
                \/ remote' = [remote EXCEPT !.servers = RemoveEntry(@, n)]
                \/ /\ HasRoom(remote.servers, n)
                   /\ remote' = [remote EXCEPT !.servers =
                          UpsertEntry(@, ForeignServerParams(n), ServerStringKeys, ServerIntKeys)]
       \/ /\ managed \in {"category", "config"}
          /\ \E n \in CategoryNames :
                \/ remote' = [remote EXCEPT !.categories = RemoveEntry(@, n)]
                \/ /\ HasRoom(remote.categories, n)
                   /\ remote' = [remote EXCEPT !.categories =
                          UpsertEntry(@, ForeignCategoryParams(n),
                                      CategoryStringKeys, CategoryIntKeys)]
       \/ /\ managed = "folders"
          /\ \E m \in ForeignMisc(remote.misc) : remote' = [remote EXCEPT !.misc = m]
    /\ remote' # remote
    /\ lastOp' = Done("RemoteChange", Null, TRUE, <<>>, NoBody, NoErr)
    /\ UNCHANGED <<provider, tasks, cfgState, managed, srvState, catState, fldState>>

(***************************************************************************)
(* Initial state and next-state relation.                                  *)
(***************************************************************************)
InitMisc ==
    [download_dir |-> JS("Downloads/incomplete"), download_free |-> JS(""),
     complete_dir |-> JS("Downloads/complete"), complete_free |-> JS(""),
     auto_resume |-> JN(0), permissions |-> JS(""), dirscan_dir |-> JS(""),
     dirscan_speed |-> JN(5), script_dir |-> JS(""), email_dir |-> JS(""),
     password_file |-> JS(""), nzb_backup_dir |-> JS(""), admin_dir |-> JS("admin"),
     backup_dir |-> JS(""), log_dir |-> JS("logs")]

DefaultCategory ==
    [name |-> JS("*"), dir |-> JS(""), script |-> JS("None"), priority |-> JN(0),
     pp |-> JS("3"), order |-> JN(0)]

InitRemote == [misc |-> InitMisc, servers |-> <<>>, categories |-> <<DefaultCategory>>]

Kinds == {"server", "category", "folders"}

DataKinds == {"config"}

NoTasks == <<>>

\* The resource constructors SabnzbdProvider.Resources returns and the data
\* source constructors SabnzbdProvider.DataSources returns, by kind.  The
\* handlers of a FoldersResource are exercised as NewFoldersResource builds
\* them, whether or not the provider hands that constructor to the host.
Resources == {"server", "category"}
DataSources == {"config"}

Init ==
    /\ provider = Configured([url |-> StringValue(BaseURL), api_key |-> StringValue(ApiKey)],
                             [SABNZBD_URL |-> "", SABNZBD_API_KEY |-> ""])
    /\ tasks = NoTasks
    /\ managed \in Kinds \cup DataKinds
    /\ remote = InitRemote
    /\ srvState = Untracked
    /\ catState = Untracked
    /\ fldState = Untracked
    /\ cfgState = Untracked
    /\ lastOp = Done("Init", Null, TRUE, <<>>, NoBody, NoErr)

Next ==
    \/ ServerCreate \/ ServerRead \/ ServerUpdate \/ ServerDelete \/ ServerImportState
    \/ CategoryCreate \/ CategoryRead \/ CategoryUpdate \/ CategoryDelete
    \/ CategoryImportState
    \/ FoldersCreate \/ FoldersRead \/ FoldersUpdate \/ FoldersDelete
    \/ FoldersImportState
    \/ ConfigRead
    \/ RemoteChange

Spec == Init /\ [][Next]_vars

(***************************************************************************)
(* The provider's configuration step on its own: every combination of the  *)
(* two attributes and the two environment variables, before any resource   *)
(* exists.                                                                 *)
(***************************************************************************)
ConfigureInit ==
    /\ \E url \in ConfigURLs, key \in ConfigKeys, envURL \in EnvURLs, envKey \in EnvKeys :
          provider = Unconfigured([url |-> url, api_key |-> key],
                                  [SABNZBD_URL |-> envURL, SABNZBD_API_KEY |-> envKey])
    /\ tasks = NoTasks
    /\ managed = "server"
    /\ remote = InitRemote
    /\ srvState = Untracked
    /\ catState = Untracked
    /\ fldState = Untracked
    /\ cfgState = Untracked
    /\ lastOp = Done("Init", Null, TRUE, <<>>, NoBody, NoErr)

ProviderConfigure ==
    /\ provider.phase = "new"
    /\ provider' = Configured(provider.config, provider.environ)
    /\ lastOp' = Done("ProviderConfigure", Null, TRUE, <<>>, NoBody, NoErr)
    /\ UNCHANGED <<tasks, cfgState, managed, remote, srvState, catState, fldState>>

\* doRequest as it would be if the client kept one url.Values for all its
\* requests.
StartRequest_SharedValues(client, params) ==
    LET kept == IF "values" \in DOMAIN client THEN client.values ELSE EmptyParams
        merged == [k \in (DOMAIN kept) \cup (DOMAIN params) |->
                      IF k \in DOMAIN params THEN params[k] ELSE kept[k]]
        req == ParamSet(ParamSet(merged, "apikey", client.apiKey), "output", "json")
    IN [client |-> [baseURL |-> client.baseURL, apiKey |-> client.apiKey, values |-> req],
        req |-> req]

\* The head of doRequest: apikey and output are set on the caller's own
\* url.Values from the client's fields, which are only read.
StartRequest(client, params) ==
    [client |-> client,
     req |-> ParamSet(ParamSet(params, "apikey", client.apiKey), "output", "json")]

\* The head of doRequest as it would be if it kept an apikey or output value
\* the caller had already set.
NewRequest_KeepsCallerValues(client, params) ==
    [method |-> "GET", url |-> client.baseURL \o "/api",
     query |-> [k \in (DOMAIN params) \cup {"apikey", "output"} |->
                  IF k \in DOMAIN params THEN params[k]
                  ELSE IF k = "apikey" THEN client.apiKey ELSE "json"]]

\* The HTTP request doRequest builds: a GET of baseURL + "/api" whose query is
\* the caller's url.Values after Set("apikey") and Set("output").
NewRequest(client, params) ==
    [method |-> "GET", url |-> client.baseURL \o "/api",
     query |-> StartRequest(client, params).req]

\* url.Values handed to doRequest: those of each mode the client's methods
\* build, and two that already hold the keys doRequest sets.
CallerParams ==
    {[mode |-> "version"], [mode |-> "get_cats"], [mode |-> "get_scripts"],
     [mode |-> "get_config"], [mode |-> "get_config", section |-> "misc"],
     DeleteServerParams("news1"), DeleteCategoryParams("movies"),
     [mode |-> "version", apikey |-> "caller-key", output |-> "xml"],
     [mode |-> "get_config", apikey |-> "", output |-> "json"]}
        \cup {SetServerParams(ServerInputOf(plan)) : plan \in ServerPlans}
        \cup {SetCategoryParams(CategoryInputOf(plan)) : plan \in CategoryPlans}
        \cup {SetFoldersParams(FoldersInputOf(plan)) : plan \in FoldersPlans(FoldersID)}

\* One request of the configured client, up to the point where it is issued.
ClientRequest ==
    /\ provider.phase = "configured"
    /\ provider.ResourceData # NoClient
    /\ \E params \in CallerParams :
          lastOp' = Done("ClientRequest", params, TRUE,
                         <<NewRequest(provider.ResourceData, params)>>, NoBody, NoErr)
    /\ UNCHANGED <<provider, tasks, cfgState, managed, remote, srvState, catState, fldState>>

ConfigureNext == ProviderConfigure \/ ClientRequest

ConfigureSpec == ConfigureInit /\ [][ConfigureNext]_vars

(***************************************************************************)
(* Parallel apply: the host runs lifecycle operations of different         *)
(* resource instances at the same time, all through the one client that    *)
(* Configure built.  A client call is taken apart into the steps of the    *)
(* mapper and of doRequest: the mapper builds its url.Values, doRequest    *)
(* adds apikey and output from the client, the request is exchanged with   *)
(* the remote, and the body is decoded.  The steps of the calls interleave.*)
(***************************************************************************)
Tasks == {1, 2}

Idle == [pc |-> "idle"]

\* The calls a task may make: task 1 works on the server news1 or writes
\* the category movies, task 2 works on the server news2 or on the category
\* movies or writes the server news1.
TaskChoices(t) ==
    IF t = 1
    THEN { [call |-> "SetServer", input |-> ServerInputOf(p)] :
             p \in { q \in ServerPlans : q.name = StringValue("news1") } }
         \cup { [call |-> c, input |-> [Name |-> "news1"]] : c \in {"GetServer", "DeleteServer"} }
         \cup { [call |-> "SetCategory", input |-> CategoryInputOf(p)] :
                 p \in { q \in CategoryPlans : q.name = StringValue("movies") } }
    ELSE { [call |-> "SetServer", input |-> ServerInputOf(p)] : p \in ServerPlans }
         \cup { [call |-> c, input |-> [Name |-> "news2"]] : c \in {"GetServer", "DeleteServer"} }
         \cup { [call |-> "SetCategory", input |-> CategoryInputOf(p)] :
                 p \in { q \in CategoryPlans : q.name = StringValue("movies") } }
         \cup { [call |-> c, input |-> [Name |-> "movies"]] : c \in {"GetCategory", "DeleteCategory"} }

\* The url.Values the mapper of a call builds.
CallParams(call, input) ==
    CASE call = "SetServer" -> SetServerParams(input)
      [] call = "DeleteServer" -> DeleteServerParams(input.Name)
      [] call = "SetCategory" -> SetCategoryParams(input)
      [] call = "DeleteCategory" -> DeleteCategoryParams(input.Name)
      [] OTHER -> [mode |-> "get_config"]

ResultType(call) == IF call \in {"GetServer", "GetCategory"} THEN "config" ELSE "map"

\* The tail of a Get call: the lookup by name in the decoded snapshot.
FinishCall(call, input, r) ==
    IF call \notin {"GetServer", "GetCategory"} THEN r
    ELSE IF r.err.kind # "none" THEN [r EXCEPT !.result = Untracked]
    ELSE LET coll == IF call = "GetServer" THEN r.result.servers ELSE r.result.categories
             i == FindByName(coll, input.Name)
         IN IF i = 0
            THEN [err |-> NotFoundErr(IF call = "GetServer" THEN "server not found"
                                      ELSE "category not found"),
                  result |-> Untracked]
            ELSE [r EXCEPT !.result = coll[i]]

TaskBegin(t) ==
    /\ tasks[t].pc = "idle"
    /\ \E ch \in TaskChoices(t) :
          tasks' = [tasks EXCEPT ![t] =
                       [pc |-> "built", call |-> ch.call, input |-> ch.input,
                        params |-> CallParams(ch.call, ch.input)]]
    /\ UNCHANGED <<provider, cfgState, managed, remote, srvState, catState, fldState, lastOp>>

TaskPrepare(t) ==
    /\ tasks[t].pc = "built"
    /\ \E s \in {StartRequest(provider.ResourceData, tasks[t].params)} :
          /\ provider' = [provider EXCEPT !.ResourceData = s.client,
                                          !.DataSourceData = s.client]
          /\ tasks' = [tasks EXCEPT ![t] =
                          [pc |-> "ready", call |-> @.call, input |-> @.input,
                           params |-> @.params, req |-> s.req]]
    /\ UNCHANGED <<cfgState, managed, remote, srvState, catState, fldState, lastOp>>

TaskExchange(t) ==
    /\ tasks[t].pc = "ready"
    /\ \E env \in Envs :
        \E x \in {Exchange(remote, tasks[t].req, env)} :
          /\ remote' = x.remote
          /\ tasks' = [tasks EXCEPT ![t] =
                          [pc |-> "received", call |-> @.call, input |-> @.input,
                           params |-> @.params, req |-> @.req,
                           env |-> env, seen |-> remote, body |-> x.body,
                           at |-> 1 + Cardinality({u \in Tasks :
                                                    tasks[u].pc \in {"received", "done"}})]]
    /\ UNCHANGED <<provider, cfgState, managed, srvState, catState, fldState, lastOp>>

TaskFinish(t) ==
    /\ tasks[t].pc = "received"
    /\ \E r \in {FinishCall(tasks[t].call, tasks[t].input,
                             doRequest(tasks[t].env.net, tasks[t].body,
                                       ResultType(tasks[t].call)))} :
          tasks' = [tasks EXCEPT ![t] =
                       [pc |-> "done", call |-> @.call, input |-> @.input,
                        params |-> @.params, req |-> @.req,
                        env |-> @.env, seen |-> @.seen, body |-> @.body, at |-> @.at,
                        err |-> r.err, result |-> r.result]]
    /\ UNCHANGED <<provider, cfgState, managed, remote, srvState, catState, fldState, lastOp>>

\* The remote both tasks start against: it holds news1, news2 and movies.
ConcurrentRemote ==
    [InitRemote EXCEPT
        !.servers = UpsertEntry(UpsertEntry(<<>>, ForeignServerParams("news1"),
                                            ServerStringKeys, ServerIntKeys),
                                ForeignServerParams("news2"),
                                ServerStringKeys, ServerIntKeys),
        !.categories = UpsertEntry(@, ForeignCategoryParams("movies"),
                                   CategoryStringKeys, CategoryIntKeys)]

ConcurrentInit ==
    /\ provider = Configured([url |-> StringValue(BaseURL), api_key |-> StringValue(ApiKey)],
                             [SABNZBD_URL |-> "", SABNZBD_API_KEY |-> ""])
    /\ tasks = [t \in Tasks |-> Idle]
    /\ managed = "server"
    /\ remote = ConcurrentRemote
    /\ srvState = Untracked
    /\ catState = Untracked
    /\ fldState = Untracked
    /\ cfgState = Untracked
    /\ lastOp = Done("Init", Null, TRUE, <<>>, NoBody, NoErr)

ConcurrentNext ==
    \E t \in Tasks : TaskBegin(t) \/ TaskPrepare(t) \/ TaskExchange(t) \/ TaskFinish(t)

ConcurrentSpec == ConcurrentInit /\ [][ConcurrentNext]_vars

(***************************************************************************)
(* Reads of a configuration that was edited outside Terraform: the remote  *)
(* answers get_config with whatever its configuration holds, which the     *)
(* client decodes as a whole before any lookup.                            *)
(***************************************************************************)
\* A configuration with the servers news1 and news2 and the category
\* movies, whose misc map lacks a key and holds a number as text.
EditedRemote == [ConcurrentRemote EXCEPT !.misc = CHOOSE m \in ForeignMisc(@) : TRUE]

\* That configuration as it is, with the port of news2 as text, with the
\* priority of movies as text, and with a second entry under the names
\* news1 and movies.
EditedRemotes ==
    { EditedRemote,
      [EditedRemote EXCEPT !.servers[2]["port"] = JS("119")],
      [EditedRemote EXCEPT !.categories[2]["priority"] = JS("high")],
      [EditedRemote EXCEPT
          !.servers = <<@[1], [@[2] EXCEPT !["name"] = JS("news1"),
                                           !["host"] = JS("second.example.com")]>>,
          !.categories = Append(@, [@[2] EXCEPT !["dir"] = JS("Second")])] }

EditedInit ==
    /\ provider = Configured([url |-> StringValue(BaseURL), api_key |-> StringValue(ApiKey)],
                             [SABNZBD_URL |-> "", SABNZBD_API_KEY |-> ""])
    /\ tasks = NoTasks
    /\ managed \in Kinds
    /\ remote \in EditedRemotes
    /\ srvState = Untracked
    /\ catState = Untracked
    /\ fldState = Untracked
    /\ cfgState = Untracked
    /\ lastOp = Done("Init", Null, TRUE, <<>>, NoBody, NoErr)

EditedNext ==
    \/ ServerCreate \/ ServerRead \/ ServerImportState
    \/ CategoryCreate \/ CategoryRead \/ CategoryImportState
    \/ FoldersCreate \/ FoldersRead \/ FoldersImportState

EditedSpec == EditedInit /\ [][EditedNext]_vars

(***************************************************************************)
(* Properties.                                                             *)
(***************************************************************************)
Ok(op) == op.err.kind = "none"
ServerWrites == {"ServerCreate", "ServerUpdate"}
CategoryWrites == {"CategoryCreate", "CategoryUpdate"}
FoldersWrites == {"FoldersCreate", "FoldersUpdate"}

\* The entry of that name the remote holds (the first one).
RemoteEntry(coll, name) ==
    coll[CHOOSE i \in 1..Len(coll) :
            EntryNamed(coll[i], name) /\ \A j \in 1..(i - 1) : ~EntryNamed(coll[j], name)]

\* The password the snapshot in a response body shows for that server name.
ShownPasswords(body, name) ==
    IF body.valid /\ "config" \in DOMAIN body.obj
    THEN LET srv == body.obj["config"][2].servers
         IN { srv[i]["password"][2] : i \in { j \in 1..Len(srv) : EntryNamed(srv[j], name) } }
    ELSE {}

\* The body carries a non-empty string under error.
HasErrorString(body) ==
    /\ body.valid /\ "error" \in DOMAIN body.obj
    /\ IsJS(body.obj["error"]) /\ body.obj["error"][2] # ""

\* A body arrived and carries no error message.
CleanBody(body) == body.valid /\ ~HasErrorString(body)

\* C1: a successful Create or Update with a non-empty password p leaves p as
\* the password in state, and no Read, successful or not, changes the
\* password in state, whatever the remote returns in the password field.
C1_PasswordPreserved ==
    [][ /\ (lastOp'.op \in ServerWrites /\ Ok(lastOp')
              /\ ValueString(lastOp'.arg.password) # "")
           => (srvState'.tracked /\ srvState'.password = lastOp'.arg.password)
        /\ (lastOp'.op = "ServerRead" /\ srvState'.tracked)
           => srvState'.password = srvState.password ]_vars

\* A Read succeeded on a written password that the response did not show.
C1_Witness ==
    /\ lastOp.op = "ServerRead" /\ Ok(lastOp)
    /\ srvState.tracked /\ srvState.password = StringValue("secret")
    /\ ShownPasswords(lastOp.body, ValueString(srvState.name)) \cap {"", "**********"} # {}

\* C2: a Folders write whose input carries a string field empty sends no
\* parameter for that field and leaves the remote value of its key as it
\* was, a value set by an earlier write included.
C2_OmitIfEmpty ==
    [][ lastOp'.op \in FoldersWrites =>
          \A a \in FoldersStringAttrs :
              ValueString(lastOp'.arg[a]) = "" =>
                  /\ Len(lastOp'.reqs) = 1
                  /\ ~HasParam(lastOp'.reqs[1], FoldersKey(a))
                  /\ (FoldersKey(a) \in DOMAIN remote.misc
                        <=> FoldersKey(a) \in DOMAIN remote'.misc)
                  /\ FoldersKey(a) \in DOMAIN remote.misc
                        => remote'.misc[FoldersKey(a)] = remote.misc[FoldersKey(a)] ]_vars

\* The last write succeeded with download_free empty and the remote still
\* holds the value of an earlier write, not the value a first write of the
\* same input would leave.
C2_Witness ==
    /\ lastOp.op \in FoldersWrites /\ Ok(lastOp)
    /\ ValueString(lastOp.arg.download_free) = ""
    /\ remote.misc["download_free"] = JS("10G")
    /\ InitMisc["download_free"] = JS("")

\* C3: a Read of a server or category whose name the remote does not hold
\* never succeeds; when the snapshot was fetched and decoded it ends with a
\* not-found error, and the state is left as it was (an import under way is
\* dropped), never replaced by zero values.
C3_ReadNotFound ==
    [][ /\ (lastOp'.op = "ServerRead"
              /\ ~HasEntry(remote.servers, ValueString(srvState.name)))
           => /\ ~Ok(lastOp')
              /\ CleanBody(lastOp'.body) => lastOp'.err.kind = "notfound"
              /\ srvState' = IF srvState.pending THEN Untracked ELSE srvState
        /\ (lastOp'.op = "CategoryRead"
              /\ ~HasEntry(remote.categories, ValueString(catState.name)))
           => /\ ~Ok(lastOp')
              /\ CleanBody(lastOp'.body) => lastOp'.err.kind = "notfound"
              /\ catState' = IF catState.pending THEN Untracked ELSE catState ]_vars

\* A tracked server whose entry is gone from the remote was read.
C3_Witness ==
    /\ lastOp.op = "ServerRead" /\ ~lastOp.present
    /\ lastOp.err.kind = "notfound"
    /\ srvState.tracked /\ srvState.host # Null

\* C4 as stated: a Delete of a server or category whose name the remote does
\* not hold ends with an error.
C4_DeleteAbsentFails ==
    [][ /\ (lastOp'.op = "ServerDelete"
              /\ ~HasEntry(remote.servers, ValueString(srvState.name)))
           => ~Ok(lastOp')
        /\ (lastOp'.op = "CategoryDelete"
              /\ ~HasEntry(remote.categories, ValueString(catState.name)))
           => ~Ok(lastOp') ]_vars

\* C4 amended: Delete issues one del_config request for the name in state
\* and consults no snapshot; it never ends with a not-found error, it fails
\* exactly on an error of the transport, and when the remote answers the
\* deletion of an absent name without an error message the Delete succeeds
\* and the state is dropped.
C4_DeleteFollowsTransport ==
    [][ /\ lastOp'.op = "ServerDelete" =>
              /\ lastOp'.reqs = <<RequestParams(DeleteServerParams(ValueString(srvState.name)))>>
              /\ lastOp'.err.kind \in {"none", "api", "transport"}
              /\ Ok(lastOp') <=> CleanBody(lastOp'.body)
              /\ srvState' = IF Ok(lastOp') THEN Untracked ELSE srvState
        /\ lastOp'.op = "CategoryDelete" =>
              /\ lastOp'.reqs =
                    <<RequestParams(DeleteCategoryParams(ValueString(catState.name)))>>
              /\ lastOp'.err.kind \in {"none", "api", "transport"}
              /\ Ok(lastOp') <=> CleanBody(lastOp'.body)
              /\ catState' = IF Ok(lastOp') THEN Untracked ELSE catState ]_vars

\* A server the remote did not hold was deleted with success.
C4_Witness ==
    /\ lastOp.op = "ServerDelete" /\ ~lastOp.present
    /\ Ok(lastOp) /\ ~srvState.tracked

\* C5 as stated: an Update of a server or category whose name the remote
\* does not hold ends with an error.
C5_UpdateAbsentFails ==
    [][ /\ (lastOp'.op = "ServerUpdate"
              /\ ~HasEntry(remote.servers, ValueString(srvState.name)))
           => ~Ok(lastOp')
        /\ (lastOp'.op = "CategoryUpdate"
              /\ ~HasEntry(remote.categories, ValueString(catState.name)))
           => ~Ok(lastOp') ]_vars

\* C5 amended: Update issues the set_config request of the plan, the same
\* request Create issues, and consults no snapshot; it never ends with a
\* not-found error and fails exactly on an error of the transport; when it
\* succeeds on a name the remote did not hold, the remote holds the entry
\* afterwards and the plan is the state.
C5_UpdateFollowsTransport ==
    [][ \A op \in {lastOp'} :
        /\ op.op = "ServerUpdate" =>
              /\ op.reqs = <<RequestParams(SetServerParams(ServerInputOf(op.arg)))>>
              /\ op.err.kind \in {"none", "api", "transport"}
              /\ Ok(op) <=> CleanBody(op.body)
              /\ srvState' = IF Ok(op) THEN op.arg ELSE srvState
              /\ Ok(op) => HasEntry(remote'.servers, ValueString(srvState.name))
        /\ op.op = "CategoryUpdate" =>
              /\ op.reqs = <<RequestParams(SetCategoryParams(CategoryInputOf(op.arg)))>>
              /\ op.err.kind \in {"none", "api", "transport"}
              /\ Ok(op) <=> CleanBody(op.body)
              /\ catState' = IF Ok(op) THEN op.arg ELSE catState
              /\ Ok(op) => HasEntry(remote'.categories, ValueString(catState.name)) ]_vars

\* A server the remote did not hold was updated with success and is back.
C5_Witness ==
    /\ lastOp.op = "ServerUpdate" /\ ~lastOp.present
    /\ Ok(lastOp) /\ srvState = lastOp.arg
    /\ HasEntry(remote.servers, ValueString(srvState.name))

\* C6: whenever the body a request received carries a non-empty error
\* message, the invocation ends with an API error carrying that message,
\* also when the body holds the data the caller asked for.
C6_ErrorPrecedence ==
    (Len(lastOp.reqs) = 1 /\ HasErrorString(lastOp.body))
        => lastOp.err = APIError(lastOp.body.obj["error"][2])

\* A get_config answer held both the snapshot and an error message and was
\* returned as an API error.
C6_Witness ==
    /\ lastOp.op \in {"ServerRead", "CategoryRead", "FoldersRead"}
    /\ HasErrorString(lastOp.body) /\ "config" \in DOMAIN lastOp.body.obj
    /\ lastOp.err.kind = "api"

ServerBoolAttrs == {"ssl", "enable", "optional", "required"}

ServerRoundTripAttrs ==
    {"host", "port", "username", "connections", "ssl", "ssl_verify", "ssl_ciphers",
     "enable", "optional", "retention", "timeout", "priority", "required", "notes"}

\* C7: a successful Create or Update of a category stores the plan, and a
\* successful Read that follows it directly yields a state equal to that
\* plan on name, dir, script, priority, pp and order.
C7_CategoryRoundTrip ==
    [][ \A op \in {lastOp'} :
        /\ (op.op \in CategoryWrites /\ Ok(op)) => catState' = op.arg
        /\ (lastOp.op \in CategoryWrites /\ Ok(lastOp) /\ op.op = "CategoryRead" /\ Ok(op))
           => catState' = lastOp.arg ]_vars

\* A category written with the negative default priority was read back equal
\* to its plan.
C7_Witness ==
    /\ lastOp.op = "CategoryRead" /\ Ok(lastOp)
    /\ catState \in CategoryPlans
    /\ ValueInt64(catState.priority) = -100
    /\ RemoteEntry(remote.categories, ValueString(catState.name))["priority"] = JN(-100)

\* C8: a server write sends each boolean as "1" or "0"; a successful Read
\* that follows a successful write directly returns the written host, port,
\* username, connections, ssl, ssl_verify, ssl_ciphers, enable, optional,
\* retention, timeout, priority, required and notes; and every successful
\* Read sets a boolean to true exactly when the remote integer equals 1.
C8_ServerRoundTrip ==
    [][ \A op \in {lastOp'} :
        /\ op.op \in ServerWrites =>
              \A b \in ServerBoolAttrs :
                  op.reqs[1][b] = IF ValueBool(op.arg[b]) THEN <<"1">> ELSE <<"0">>
        /\ (lastOp.op \in ServerWrites /\ Ok(lastOp) /\ op.op = "ServerRead" /\ Ok(op))
           => \A f \in ServerRoundTripAttrs : srvState'[f] = lastOp.arg[f]
        /\ (op.op = "ServerRead" /\ Ok(op))
           => \A b \in ServerBoolAttrs :
                  ValueBool(srvState'[b])
                      <=> RemoteEntry(remote.servers, ValueString(srvState.name))[b] = JN(1)
      ]_vars

\* A server written with ssl = true went out as ssl=1 and was read back
\* equal to its plan.
C8_Witness ==
    /\ lastOp.op = "ServerRead" /\ Ok(lastOp)
    /\ srvState \in ServerPlans
    /\ srvState.ssl = BoolValue(TRUE)
    /\ RemoteEntry(remote.servers, ValueString(srvState.name))["ssl"] = JN(1)

\* C9: after a successful Folders Create, Update or Read the id in state is
\* "folders", whatever the plan, the imported identifier or the remote hold.
C9_FoldersIdentity ==
    (lastOp.op \in FoldersWrites \cup {"FoldersRead"} /\ Ok(lastOp))
        => (fldState.tracked /\ fldState.id = StringValue("folders"))

\* The Read after an import under another identifier set the id.
C9_Witness ==
    /\ lastOp.op = "FoldersRead" /\ Ok(lastOp)
    /\ lastOp.arg = StringValue("imported-misc")
    /\ fldState.id = StringValue("folders")

\* C10: Folders Delete issues no request, leaves the remote configuration
\* as it was, ends without error and leaves the resource untracked.
C10_FoldersDeleteLocal ==
    [][ \A op \in {lastOp'} :
        op.op = "FoldersDelete" =>
            /\ op.reqs = <<>>
            /\ remote' = remote
            /\ Ok(op)
            /\ fldState' = Untracked ]_vars

\* Folders were deleted while the remote held values a write had set.
C10_Witness ==
    /\ lastOp.op = "FoldersDelete" /\ ~fldState.tracked
    /\ remote.misc["download_free"] = JS("10G")

\* C11: the kind a configuration declares, whether one of the resource kinds
\* server, category and folders or the data kind config, is among the
\* resources or data sources the provider registers with the host.
C11_AllKindsRegistered ==
    /\ managed \in Kinds => managed \in Resources
    /\ managed \in DataKinds => managed \in DataSources

ServerOps == {"ServerCreate", "ServerRead", "ServerUpdate", "ServerDelete"}
CategoryOps == {"CategoryCreate", "CategoryRead", "CategoryUpdate", "CategoryDelete"}

\* C12: every Create, Update, Read and Delete of a server or category issues
\* exactly one request, whether it succeeds or fails, and the remote is
\* either as before or as one processing of that request leaves it; no
\* operation issues more requests than it makes client calls.
C12_SingleAttempt ==
    [][ \A op \in {lastOp'} :
        /\ op.op \in ServerOps \cup CategoryOps =>
              /\ Len(op.reqs) = 1
              /\ remote' \in {remote, RemoteApply(remote, op.reqs[1])}
        /\ op.op \in FoldersWrites \cup {"FoldersRead"} => Len(op.reqs) = 1 ]_vars

\* A Create whose request was lost ended with a transport error after one
\* request, and the remote holds no entry of its name.
C12_Witness ==
    /\ lastOp.op = "ServerCreate" /\ lastOp.err = TransportErr("executing request")
    /\ Len(lastOp.reqs) = 1 /\ ~srvState.tracked
    /\ ~HasEntry(remote.servers, ValueString(lastOp.arg.name))
    /\ remote.servers # <<>>

\* C13: Update is only invoked with the name in state and writes under that
\* name; a change of name is a Delete of the old name followed by a Create
\* of the new one, after which the remote holds the new name and no entry
\* under the old name, the default category * included.
C13_NameImmutable ==
    [][ \A op \in {lastOp'} :
        /\ op.op = "ServerUpdate" =>
              /\ op.arg.name = srvState.name
              /\ op.reqs[1]["name"] = ValueString(srvState.name)
              /\ srvState'.name = srvState.name
        /\ op.op = "CategoryUpdate" =>
              /\ op.arg.name = catState.name
              /\ op.reqs[1]["name"] = ValueString(catState.name)
              /\ catState'.name = catState.name
        /\ (lastOp.op = "ServerDelete" /\ Ok(lastOp) /\ op.op = "ServerCreate" /\ Ok(op)
              /\ op.arg.name # lastOp.arg)
           => /\ ~HasEntry(remote'.servers, ValueString(lastOp.arg))
              /\ HasEntry(remote'.servers, ValueString(op.arg.name))
        /\ (lastOp.op = "CategoryDelete" /\ Ok(lastOp) /\ op.op = "CategoryCreate" /\ Ok(op)
              /\ op.arg.name # lastOp.arg)
           => /\ ~HasEntry(remote'.categories, ValueString(lastOp.arg))
              /\ HasEntry(remote'.categories, ValueString(op.arg.name))
      ]_vars

\* The category movies was created while the remote holds no entry *.
C13_Witness ==
    /\ lastOp.op = "CategoryCreate" /\ Ok(lastOp)
    /\ catState.tracked /\ catState.name = StringValue("movies")
    /\ ~HasEntry(remote.categories, "*")
    /\ HasEntry(remote.categories, "movies")

\* C14: after Configure, with each effective value being the attribute when
\* it is not null and the environment variable otherwise, a client built
\* from the two effective values is handed to resources and data sources
\* exactly when both are non-empty; otherwise there is an error for each
\* empty one and no client.
C14_ConfigureFallback ==
    provider.phase = "configured" =>
        LET url == IF provider.config.url = Null THEN provider.environ.SABNZBD_URL
                   ELSE provider.config.url[1]
            key == IF provider.config.api_key = Null THEN provider.environ.SABNZBD_API_KEY
                   ELSE provider.config.api_key[1]
        IN /\ provider.ResourceData = provider.DataSourceData
           /\ (url # "" /\ key # "") <=> provider.ResourceData # NoClient
           /\ provider.ResourceData # NoClient
                 => /\ provider.ResourceData = [baseURL |-> url, apiKey |-> key]
                    /\ provider.diags = {}
           /\ "url" \in provider.diags <=> url = ""
           /\ "api_key" \in provider.diags <=> key = ""

\* An empty url attribute hid a set SABNZBD_URL: an error and no client.
C14_Witness ==
    /\ provider.phase = "configured"
    /\ provider.config.url = StringValue("") /\ provider.environ.SABNZBD_URL # ""
    /\ provider.config.api_key = Null /\ provider.environ.SABNZBD_API_KEY # ""
    /\ provider.diags = {"url"} /\ provider.ResourceData = NoClient

\* The remote entry that holds exactly the values of a server plan.
ServerEntryOf(plan) ==
    [k \in ServerStringKeys \cup ServerIntKeys |->
        IF k \in ServerStringKeys THEN JS(ValueString(plan[k]))
        ELSE IF k \in ServerBoolAttrs THEN JN(IF ValueBool(plan[k]) THEN 1 ELSE 0)
        ELSE JN(ValueInt64(plan[k]))]

\* The remote entry that holds exactly the values of a category plan.
CategoryEntryOf(plan) ==
    [k \in CategoryStringKeys \cup CategoryIntKeys |->
        IF k \in CategoryStringKeys THEN JS(ValueString(plan[k]))
        ELSE JN(ValueInt64(plan[k]))]

\* C15: a server or category write sends every field, empty and default
\* values included; after a successful write the remote entry of that name
\* equals the input whatever it held before; processing the same request
\* again, or a successful Update with the same plan, leaves the remote as
\* it is.
C15_WriteIdempotent ==
    [][ \A op \in {lastOp'} :
        /\ op.op \in ServerWrites =>
              /\ ServerStringKeys \cup ServerIntKeys \subseteq DOMAIN op.reqs[1]
              /\ Ok(op) =>
                    /\ RemoteEntry(remote'.servers, ValueString(op.arg.name))
                           = ServerEntryOf(op.arg)
                    /\ RemoteApply(remote', op.reqs[1]) = remote'
        /\ op.op \in CategoryWrites =>
              /\ CategoryStringKeys \cup CategoryIntKeys \subseteq DOMAIN op.reqs[1]
              /\ Ok(op) =>
                    /\ RemoteEntry(remote'.categories, ValueString(op.arg.name))
                           = CategoryEntryOf(op.arg)
                    /\ RemoteApply(remote', op.reqs[1]) = remote'
        /\ (lastOp.op \in ServerWrites \cup CategoryWrites /\ Ok(lastOp) /\ Ok(op)
              /\ op.op \in {"ServerUpdate", "CategoryUpdate"} /\ op.arg = lastOp.arg)
           => remote' = remote ]_vars

\* An Update with empty username, password and notes succeeded on an entry
\* the remote already held, and the entry now holds those empty values.
C15_Witness ==
    /\ lastOp.op = "ServerUpdate" /\ Ok(lastOp) /\ lastOp.present
    /\ ValueString(lastOp.arg.username) = ""
    /\ RemoteEntry(remote.servers, ValueString(lastOp.arg.name))["username"] = JS("")
    /\ RemoteEntry(remote.servers, ValueString(lastOp.arg.name))["notes"] = JS("")

AllWrites == ServerWrites \cup CategoryWrites \cup FoldersWrites

\* C16: whenever a Create or Update reports an error the remote
\* configuration is unchanged, and whenever it reports success every sent
\* field has been applied.
C16_AllOrNothing ==
    [][ \A op \in {lastOp'} :
        op.op \in AllWrites =>
            /\ Failed(op) => remote' = remote
            /\ Ok(op) => remote' = RemoteApply(remote, op.reqs[1]) ]_vars

\* C16 as the code has it: a write is one request, which the remote
\* processes as a whole or not at all; on success every sent field has been
\* applied; on an API error the remote is unchanged; on a transport error
\* the remote is unchanged when the request did not arrive, and holds the
\* whole write when only the response was lost or unreadable.
C16_WholeOrNothing ==
    [][ \A op \in {lastOp'} :
        op.op \in AllWrites =>
            /\ Len(op.reqs) = 1
            /\ remote' \in {remote, RemoteApply(remote, op.reqs[1])}
            /\ Ok(op) => remote' = RemoteApply(remote, op.reqs[1])
            /\ op.err.kind = "api" => remote' = remote
            /\ op.err = TransportErr("reading response body")
                  => remote' = RemoteApply(remote, op.reqs[1]) ]_vars

\* A Create failed with a transport error, nothing is tracked, and the
\* remote holds the whole entry of the plan.
C16_Witness ==
    /\ lastOp.op = "ServerCreate" /\ lastOp.err.kind = "transport"
    /\ ~lastOp.present /\ ~srvState.tracked
    /\ HasEntry(remote.servers, ValueString(lastOp.arg.name))
    /\ RemoteEntry(remote.servers, ValueString(lastOp.arg.name)) = ServerEntryOf(lastOp.arg)

\* The sequential client call a task stands for, run alone.
CallAlone(call, input, rem, env) ==
    CASE call = "SetServer" -> SetServer(rem, input, env)
      [] call = "GetServer" -> GetServer(rem, input.Name, env)
      [] call = "DeleteServer" -> DeleteServer(rem, input.Name, env)
      [] call = "SetCategory" -> SetCategory(rem, input, env)
      [] call = "GetCategory" -> GetCategory(rem, input.Name, env)
      [] call = "DeleteCategory" -> DeleteCategory(rem, input.Name, env)

\* C17: while operations of different resource instances interleave on one
\* client, the client keeps the base URL and API key it was built with,
\* every request sent is the caller's own parameter set with apikey and
\* output added, and every finished call has sent the request, received
\* the body and reports the error and result that the same call gives when
\* run alone against the remote as it was when the request was processed.
C17_NoInterference ==
    /\ tasks # NoTasks => provider.ResourceData = NewClient(BaseURL, ApiKey)
    /\ \A t \in DOMAIN tasks :
          /\ tasks[t].pc \in {"ready", "received", "done"}
                => tasks[t].req = RequestParams(CallParams(tasks[t].call, tasks[t].input))
          /\ tasks[t].pc = "done" =>
                \A alone \in {CallAlone(tasks[t].call, tasks[t].input,
                                        tasks[t].seen, tasks[t].env)} :
                    /\ tasks[t].req = alone.req
                    /\ tasks[t].body = alone.body
                    /\ tasks[t].err = alone.err
                    /\ tasks[t].result = alone.result

\* Both calls finished, the second request processed between the steps of
\* the first: task 1 wrote news1 while task 2 deleted movies.
C17_Witness ==
    /\ tasks # NoTasks
    /\ tasks[1].pc = "done" /\ tasks[2].pc = "done"
    /\ tasks[1].call = "SetServer" /\ tasks[1].err.kind = "none"
    /\ tasks[2].call = "DeleteCategory" /\ tasks[2].err.kind = "none"
    /\ tasks[1].seen # ConcurrentRemote
    /\ ~HasEntry(remote.categories, "movies")

ConfigModes == {"version", "get_cats", "get_scripts"}

\* C18: a Read of the config data source issues at most three requests, all
\* with mode version, get_cats or get_scripts, none with get_config,
\* set_config or del_config, and leaves the remote configuration unchanged.
C18_ConfigReadOnly ==
    [][ \A op \in {lastOp'} :
        op.op = "ConfigRead" =>
            /\ Len(op.reqs) \in 1..3
            /\ \A i \in 1..Len(op.reqs) : op.reqs[i]["mode"] \in ConfigModes
            /\ remote' = remote ]_vars

\* A Read succeeded with three requests and lists the category movies.
C18_Witness ==
    /\ lastOp.op = "ConfigRead" /\ Ok(lastOp) /\ Len(lastOp.reqs) = 3
    /\ cfgState.tracked /\ cfgState.version = StringValue(RemoteVersion)
    /\ \E i \in 1..Len(cfgState.categories) : cfgState.categories[i] = StringValue("movies")

\* The entries of a collection under names other than the given one.
OtherEntries(coll, name) == SelectSeq(coll, LAMBDA e : ~EntryNamed(e, name))

\* C19: Delete of a server or category issues one del_config request with
\* its section and the name in state as keyword; after a successful Delete
\* the remote holds no entry of that name and the entries of other names,
\* the other section and misc are as before; a Read of a name the remote
\* does not hold never succeeds and reports not-found when the snapshot
\* arrived; and an absent name comes back only by a set_config write of
\* that name or by a change made outside.
C19_DeleteRemoves ==
    [][ \A op \in {lastOp'} :
        /\ op.op = "ServerDelete" =>
              /\ Len(op.reqs) = 1
              /\ op.reqs[1]["mode"] = "del_config" /\ op.reqs[1]["section"] = "servers"
              /\ op.reqs[1]["keyword"] = ValueString(srvState.name)
              /\ Ok(op) =>
                    /\ ~HasEntry(remote'.servers, ValueString(srvState.name))
                    /\ OtherEntries(remote'.servers, ValueString(srvState.name))
                          = OtherEntries(remote.servers, ValueString(srvState.name))
                    /\ remote'.categories = remote.categories /\ remote'.misc = remote.misc
        /\ op.op = "CategoryDelete" =>
              /\ Len(op.reqs) = 1
              /\ op.reqs[1]["mode"] = "del_config" /\ op.reqs[1]["section"] = "categories"
              /\ op.reqs[1]["keyword"] = ValueString(catState.name)
              /\ Ok(op) =>
                    /\ ~HasEntry(remote'.categories, ValueString(catState.name))
                    /\ OtherEntries(remote'.categories, ValueString(catState.name))
                          = OtherEntries(remote.categories, ValueString(catState.name))
                    /\ remote'.servers = remote.servers /\ remote'.misc = remote.misc
        /\ (op.op = "ServerRead" /\ ~HasEntry(remote.servers, ValueString(srvState.name)))
           => /\ Failed(op)
              /\ CleanBody(op.body) => op.err.kind = "notfound"
        /\ (op.op = "CategoryRead"
              /\ ~HasEntry(remote.categories, ValueString(catState.name)))
           => /\ Failed(op)
              /\ CleanBody(op.body) => op.err.kind = "notfound"
        /\ \A n \in ServerNames :
              (~HasEntry(remote.servers, n) /\ HasEntry(remote'.servers, n))
              => \/ op.op = "RemoteChange"
                 \/ op.op \in ServerWrites /\ ValueString(op.arg.name) = n
        /\ \A n \in CategoryNames :
              (~HasEntry(remote.categories, n) /\ HasEntry(remote'.categories, n))
              => \/ op.op = "RemoteChange"
                 \/ op.op \in CategoryWrites /\ ValueString(op.arg.name) = n
      ]_vars

\* A Delete removed the entry of its name and the remote still holds an
\* entry under the other name.
C19_Witness ==
    /\ lastOp.op = "ServerDelete" /\ Ok(lastOp) /\ lastOp.present
    /\ ~srvState.tracked
    /\ ~HasEntry(remote.servers, ValueString(lastOp.arg))
    /\ remote.servers # <<>>

\* C20: a finished client call has ended in one of success, not-found (the
\* mapper's own result after a successful invocation), API error or
\* transport error; it is an API error exactly when the body carries a
\* non-empty error string, and the message is that string as the remote
\* sent it; a lost request or response, an unreadable or a malformed body
\* always ends in a transport error, never in an API error or success.
C20_ThreeOutcomes ==
    \A t \in DOMAIN tasks :
        tasks[t].pc = "done" =>
            \A c \in {tasks[t]} :
                /\ c.err.kind \in {"none", "notfound", "api", "transport"}
                /\ c.env.net # "ok" => c.err.kind = "transport"
                /\ c.err.kind = "api" <=> HasErrorString(c.body)
                /\ c.err.kind = "api" =>
                      /\ c.err.msg = c.body.obj["error"][2]
                      /\ c.err.msg = c.env.msg
                /\ c.err.kind \in {"none", "notfound"} =>
                      /\ c.env.net = "ok" /\ CleanBody(c.body)
                      /\ ResultDecodes(c.body, ResultType(c.call))
                /\ c.err.kind = "notfound" => c.call \in {"GetServer", "GetCategory"}

\* One call ended with the remote's message as API error, the other with a
\* transport error because its response could not be read.
C20_Witness ==
    /\ tasks # NoTasks
    /\ tasks[1].pc = "done" /\ tasks[2].pc = "done"
    /\ tasks[1].err = APIError("API Key Incorrect")
    /\ tasks[2].env.net = "read_fail"
    /\ tasks[2].err = TransportErr("reading response body")

\* C21: the request the transport issues for any caller parameters is a
\* single GET of base_url + "/api" whose query holds apikey equal to the
\* client's key and output=json, whatever the caller had put under these two
\* keys, and every other caller parameter with the caller's value and
\* nothing else.
C21_RequestShape ==
    lastOp.op = "ClientRequest" =>
        /\ Len(lastOp.reqs) = 1
        /\ \A r \in {lastOp.reqs[1]} :
              /\ r.method = "GET"
              /\ r.url = provider.ResourceData.baseURL \o "/api"
              /\ DOMAIN r.query = (DOMAIN lastOp.arg) \cup {"apikey", "output"}
              /\ r.query["apikey"] = provider.ResourceData.apiKey
              /\ r.query["output"] = "json"
              /\ \A k \in (DOMAIN lastOp.arg) \ {"apikey", "output"} :
                    r.query[k] = lastOp.arg[k]

\* A caller had set apikey and output to other values; the request carries
\* the client's key and json, and the caller's mode.
C21_Witness ==
    /\ lastOp.op = "ClientRequest"
    /\ "apikey" \in DOMAIN lastOp.arg /\ lastOp.arg["apikey"] = "caller-key"
    /\ lastOp.arg["output"] = "xml"
    /\ lastOp.reqs[1].query["apikey"] = provider.ResourceData.apiKey
    /\ lastOp.reqs[1].query["apikey"] # "caller-key"
    /\ lastOp.reqs[1].query["output"] = "json"
    /\ lastOp.reqs[1].query["mode"] = "version"

C22_WitnessNegative ==
    /\ lastOp.op \in FoldersWrites /\ Ok(lastOp)
    /\ ValueInt64(lastOp.arg.watched_dir_scan_speed) = -1
    /\ ~HasParam(lastOp.reqs[1], "dirscan_speed")
    /\ remote.misc["download_dir"] = JS("/tmp/incomplete")
    /\ remote.misc["dirscan_speed"] = JN(0)

\* The misc map of a get_config response body.
FetchedMisc(body) ==
    IF "config" \in DOMAIN body.obj THEN body.obj["config"][2].misc ELSE EmptyParams

\* C23: a Folders Read whose response arrived, carries no error message and
\* decodes into the typed configuration succeeds, and the state then holds,
\* for each field, the value of its misc key when that key is present with
\* the expected JSON type and the zero value ("" / 0 / false) otherwise.
C23_LenientRead ==
    [][ \A op \in {lastOp'} :
        (op.op = "FoldersRead" /\ CleanBody(op.body) /\ ResultDecodes(op.body, "config")) =>
            \A misc \in {FetchedMisc(op.body)} :
                /\ Ok(op)
                /\ fldState'.tracked
                /\ \A a \in FoldersStringAttrs :
                      fldState'[a] = StringValue(
                          IF FoldersKey(a) \in DOMAIN misc /\ misc[FoldersKey(a)][1] = "string"
                          THEN misc[FoldersKey(a)][2] ELSE "")
                /\ fldState'.watched_dir_scan_speed = Int64Value(
                          IF "dirscan_speed" \in DOMAIN misc /\ misc["dirscan_speed"][1] = "number"
                          THEN misc["dirscan_speed"][2] ELSE 0)
                /\ fldState'.auto_resume = BoolValue(
                          /\ "auto_resume" \in DOMAIN misc
                          /\ misc["auto_resume"] = <<"number", 1>>) ]_vars

\* A Read succeeded on a misc map without password_file and with the scan
\* speed as text: both fields are zero, the download folder is the remote's.
C23_Witness ==
    /\ lastOp.op = "FoldersRead" /\ Ok(lastOp)
    /\ "password_file" \notin DOMAIN remote.misc
    /\ remote.misc["dirscan_speed"] = JS("5")
    /\ fldState.tracked
    /\ fldState.password_file = StringValue("")
    /\ fldState.watched_dir_scan_speed = Int64Value(0)
    /\ fldState.download_dir = StringValue("/mnt/other")

\* C24: a successful Folders Create or Update issues the one set_config
\* request and stores the plan with id "folders"; a successful Read right
\* after it leaves every field that was sent (non-empty strings, a scan speed
\* that is not negative, auto_resume) at the planned value and sets every
\* string field planned empty to the value the remote holds for its key.
C24_WriteThenRead ==
    [][ \A op \in {lastOp'} :
        /\ (op.op \in FoldersWrites /\ Ok(op)) =>
              /\ Len(op.reqs) = 1 /\ op.reqs[1]["mode"] = "set_config"
              /\ fldState' = [op.arg EXCEPT !.id = StringValue("folders")]
        /\ (op.op = "FoldersRead" /\ Ok(op) /\ lastOp.op \in FoldersWrites /\ Ok(lastOp)) =>
              \A plan \in {lastOp.arg} :
                  /\ fldState = [plan EXCEPT !.id = StringValue("folders")]
                  /\ fldState'.auto_resume = plan.auto_resume
                  /\ plan.watched_dir_scan_speed[1] >= 0 =>
                        fldState'.watched_dir_scan_speed = plan.watched_dir_scan_speed
                  /\ \A a \in FoldersStringAttrs :
                        fldState'[a] =
                            IF plan[a] # StringValue("") THEN plan[a]
                            ELSE IF FoldersKey(a) \in DOMAIN remote.misc
                                    /\ remote.misc[FoldersKey(a)][1] = "string"
                                 THEN StringValue(remote.misc[FoldersKey(a)][2])
                            ELSE StringValue("") ]_vars

\* After a write that planned admin_dir empty the state holds the plan,
\* while the remote holds "admin".
C24_Witness ==
    /\ lastOp.op \in FoldersWrites /\ Ok(lastOp)
    /\ fldState = [lastOp.arg EXCEPT !.id = StringValue("folders")]
    /\ fldState.admin_dir = StringValue("")
    /\ remote.misc["admin_dir"] = JS("admin")

\* After the Read that followed, the state holds the remote's admin_dir next
\* to the planned download folder.
C24_WitnessRead ==
    /\ lastOp.op = "FoldersRead" /\ Ok(lastOp)
    /\ fldState.download_dir = StringValue("/tmp/incomplete")
    /\ fldState.password_file = StringValue("/config/passwords.txt")
    /\ fldState.admin_dir = StringValue("admin")

\* What the host has stored for a resource: the state of an import is
\* stored only once the Read that completes the import has succeeded.
Stored(state) == IF state.tracked /\ state.pending THEN Untracked ELSE state

LifecycleOps ==
    ServerOps \cup CategoryOps \cup {"FoldersCreate", "FoldersRead", "FoldersUpdate", "FoldersDelete", "ConfigRead"}

\* C25: whenever the client call of a Create, Read, Update or Delete of a
\* server, a category or the folders, or of the Read of the config data
\* source, returns an error, the operation ends with that error and the
\* stored state of every resource and of the data source is what it was
\* before: a failed Delete keeps the resource tracked, a failed Read keeps
\* the resource and its fields.
C25_ErrorKeepsState ==
    [][ \A op \in {lastOp'} :
        (op.op \in LifecycleOps /\ op.err.kind \in {"api", "transport", "notfound"}) =>
            /\ Stored(srvState') = Stored(srvState)
            /\ Stored(catState') = Stored(catState)
            /\ Stored(fldState') = Stored(fldState)
            /\ cfgState' = cfgState
            /\ (op.op \in {"ServerRead", "ServerDelete"} /\ ~srvState.pending) =>
                  srvState'.tracked /\ srvState' = srvState
            /\ (op.op \in {"CategoryRead", "CategoryDelete"} /\ ~catState.pending) =>
                  catState'.tracked /\ catState' = catState
            /\ (op.op = "FoldersRead" /\ ~fldState.pending) =>
                  fldState'.tracked /\ fldState' = fldState ]_vars

\* A Read of a written server ended with "server not found" and the state
\* still holds the server with its fields.
C25_Witness ==
    /\ lastOp.op = "ServerRead" /\ lastOp.err = NotFoundErr("server not found")
    /\ srvState.tracked /\ ~srvState.pending
    /\ srvState.host = StringValue("news.example.org")
    /\ ~HasEntry(remote.servers, ValueString(srvState.name))

\* The result type the last request of an operation decodes its body into.
OpResultType(op) ==
    IF op.op \in {"ServerRead", "CategoryRead", "FoldersRead"} THEN "config"
    ELSE IF op.op = "ConfigRead" THEN <<"version", "categories", "scripts">>[Len(op.reqs)]
    ELSE "map"

\* C26: when a response body arrived, the transport reports success exactly
\* when the body holds no non-empty error string and decodes into the
\* result type, whatever the HTTP status code and the status member are; a
\* Create or Update whose answer is such a body stores the planned values.
C26_BodyDecides ==
    [][ \A op \in {lastOp'} :
        (op.op \in LifecycleOps \ {"FoldersDelete"} /\ op.body.valid) =>
            /\ (op.err.kind \in {"none", "notfound"})
                  <=> (~HasErrorString(op.body) /\ ResultDecodes(op.body, OpResultType(op)))
            /\ (op.op \in AllWrites /\ ~HasErrorString(op.body)) =>
                  /\ Ok(op)
                  /\ op.op \in ServerWrites => srvState' = op.arg
                  /\ op.op \in CategoryWrites => catState' = op.arg
                  /\ op.op \in FoldersWrites =>
                        fldState' = [op.arg EXCEPT !.id = StringValue("folders")] ]_vars

\* A Create was answered with HTTP status 500 and status false, without an
\* error message: it succeeded and the state holds the plan.
C26_Witness ==
    /\ lastOp.op = "ServerCreate" /\ Ok(lastOp)
    /\ lastOp.body.valid /\ lastOp.body.code = 500
    /\ lastOp.body.obj["status"] = JB(FALSE)
    /\ srvState = lastOp.arg

\* The request of task t was processed and applied by the remote.
Applied(t) ==
    /\ tasks[t].pc \in {"received", "done"}
    /\ RemoteReached(tasks[t].env) /\ tasks[t].env.verdict = "accept"

\* C27: when two concurrent writes to the same server or category name have
\* both been applied, the remote entry of that name equals the complete
\* input of the write the remote processed last, every field included, so it
\* holds no value that only the other write carried.
C27_LastWriteWins ==
    \A t \in DOMAIN tasks, u \in DOMAIN tasks :
        (/\ t # u /\ Applied(t) /\ Applied(u)
         /\ tasks[t].call = tasks[u].call
         /\ tasks[t].call \in {"SetServer", "SetCategory"}
         /\ tasks[t].input.Name = tasks[u].input.Name
         /\ tasks[t].at > tasks[u].at) =>
            \A n \in {tasks[t].input.Name} :
                /\ tasks[t].call = "SetServer" =>
                      \E p \in ServerPlans :
                          /\ ServerInputOf(p) = tasks[t].input
                          /\ RemoteEntry(remote.servers, n) = ServerEntryOf(p)
                          /\ Cardinality({i \in 1..Len(remote.servers) :
                                            EntryNamed(remote.servers[i], n)}) = 1
                /\ tasks[t].call = "SetCategory" =>
                      \E p \in CategoryPlans :
                          /\ CategoryInputOf(p) = tasks[t].input
                          /\ RemoteEntry(remote.categories, n) = CategoryEntryOf(p)
                          /\ Cardinality({i \in 1..Len(remote.categories) :
                                            EntryNamed(remote.categories[i], n)}) = 1

\* Both tasks wrote news1 with different inputs; the request of task 1 was
\* built first and processed last, and the entry holds its input although
\* task 2 has not finished reading its answer.
C27_Witness ==
    /\ tasks # NoTasks
    /\ tasks[1].pc = "done" /\ tasks[2].pc = "received"
    /\ tasks[1].call = "SetServer" /\ tasks[2].call = "SetServer"
    /\ tasks[2].input.Name = "news1"
    /\ tasks[1].input # tasks[2].input
    /\ Applied(1) /\ Applied(2)
    /\ tasks[1].at = 2 /\ tasks[2].at = 1
    /\ tasks[1].input.Username = "" /\ tasks[2].input.Username = "alice"
    /\ RemoteEntry(remote.servers, "news1")["username"] = JS("")

\* Both tasks wrote the category movies; the entry holds the empty folder
\* of the write processed last, not the folder of the earlier one.
C27_WitnessCategory ==
    /\ tasks # NoTasks
    /\ tasks[1].pc = "done" /\ tasks[2].pc = "done"
    /\ tasks[1].call = "SetCategory" /\ tasks[2].call = "SetCategory"
    /\ Applied(1) /\ Applied(2)
    /\ tasks[1].at = 2
    /\ tasks[1].input.Dir = "" /\ tasks[2].input.Dir = "Movies"
    /\ RemoteEntry(remote.categories, "movies")["dir"] = JS("")

\* C28: the requests of a Read of the config data source are, in this
\* order, version, get_cats and get_scripts, cut after the first call that
\* fails; a Read with fewer than three requests has failed on its last one;
\* a failed Read leaves the state as it was, and a successful one has made
\* all three calls and sets id, version, categories and scripts together.
C28_OrderedAllOrNothing ==
    [][ \A op \in {lastOp'} :
        op.op = "ConfigRead" =>
            \A n \in {Len(op.reqs)} :
                /\ n \in 1..3
                /\ \A i \in 1..n : op.reqs[i]["mode"] = <<"version", "get_cats", "get_scripts">>[i]
                /\ n < 3 => Failed(op)
                /\ Failed(op) => cfgState' = cfgState
                /\ (Failed(op) /\ op.body.valid) =>
                      HasErrorString(op.body) \/ ~ResultDecodes(op.body, OpResultType(op))
                /\ Ok(op) =>
                      /\ n = 3 /\ CleanBody(op.body)
                      /\ cfgState' =
                            [tracked |-> TRUE, id |-> StringValue("sabnzbd-config"),
                             version |-> StringValue(RemoteVersion),
                             categories |-> [i \in 1..Len(remote.categories) |->
                                                StringValue(remote.categories[i]["name"][2])],
                             scripts |-> [i \in 1..Len(RemoteScripts) |->
                                             StringValue(RemoteScripts[i])]] ]_vars

\* A Read failed on get_cats after version had succeeded: two requests were
\* issued and the state is the one an earlier Read had set, which no longer
\* lists the categories the remote holds now.
C28_Witness ==
    /\ lastOp.op = "ConfigRead" /\ Failed(lastOp)
    /\ Len(lastOp.reqs) = 2 /\ lastOp.reqs[2]["mode"] = "get_cats"
    /\ cfgState.tracked /\ cfgState.id = StringValue("sabnzbd-config")
    /\ Len(cfgState.categories) # Len(remote.categories)

\* An entry with a member of another JSON type than its struct field.
Mistyped(e, strKeys, intKeys) ==
    \E k \in DOMAIN e : \/ k \in strKeys /\ e[k][1] # "string"
                        \/ k \in intKeys /\ e[k][1] # "number"

\* The snapshot in a get_config response body holds a mistyped server or
\* category entry.
SnapshotMistyped(body) ==
    /\ "config" \in DOMAIN body.obj
    /\ \A c \in {body.obj["config"][2]} :
          \/ \E i \in 1..Len(c.servers) :
                Mistyped(c.servers[i], ServerStringKeys, ServerIntKeys)
          \/ \E i \in 1..Len(c.categories) :
                Mistyped(c.categories[i], CategoryStringKeys, CategoryIntKeys)

\* C29: when the get_config response arrived without an error message and
\* its snapshot holds a server or category entry with a member of the wrong
\* type, the Read of a server, of a category and of the folders each fail
\* with a decoding error and store nothing, whatever section the resource
\* belongs to; when no entry is mistyped the Folders Read succeeds, whatever
\* the misc map holds.
C29_WholeSnapshotDecoded ==
    [][ \A op \in {lastOp'} :
        (op.op \in {"ServerRead", "CategoryRead", "FoldersRead"} /\ CleanBody(op.body)) =>
            /\ SnapshotMistyped(op.body) =>
                  /\ op.err = TransportErr("decoding response")
                  /\ Stored(srvState') = Stored(srvState)
                  /\ Stored(catState') = Stored(catState)
                  /\ Stored(fldState') = Stored(fldState)
            /\ (op.op = "FoldersRead" /\ ~SnapshotMistyped(op.body)) => Ok(op) ]_vars

\* The Read of a written category failed on decoding because the port of
\* the server news2 is text, while every category entry is well typed.
C29_Witness ==
    /\ lastOp.op = "CategoryRead" /\ lastOp.err = TransportErr("decoding response")
    /\ catState.tracked /\ ~catState.pending
    /\ remote.servers[2]["port"] = JS("119")
    /\ \A i \in 1..Len(remote.categories) :
          ~Mistyped(remote.categories[i], CategoryStringKeys, CategoryIntKeys)

\* The Read of the folders failed on decoding because the priority of the
\* category movies is text.
C29_WitnessFolders ==
    /\ lastOp.op = "FoldersRead" /\ lastOp.err = TransportErr("decoding response")
    /\ remote.categories[2]["priority"] = JS("high")

\* C30: a Read of a server or category issues the one get_config request
\* and leaves the remote unchanged; the name in state stays what it was;
\* after a successful Read every other field read from the remote holds
\* the value of the first entry, in response order, whose name is the name
\* in state, also when a later entry carries the same name.
C30_ReadByName ==
    [][ \A op \in {lastOp'} :
        /\ op.op \in {"ServerRead", "CategoryRead"} =>
              /\ Len(op.reqs) = 1
              /\ op.reqs[1] = [mode |-> "get_config", apikey |-> ApiKey, output |-> "json"]
              /\ remote' = remote
        /\ op.op = "ServerRead" =>
              /\ srvState'.tracked => srvState'.name = srvState.name
              /\ Ok(op) =>
                    \A e \in {RemoteEntry(op.body.obj["config"][2].servers,
                                          ValueString(srvState.name))} :
                        /\ srvState'.tracked
                        /\ \A k \in {"host", "username", "ssl_ciphers", "notes"} :
                              srvState'[k] = StringValue(e[k][2])
                        /\ \A k \in {"port", "connections", "ssl_verify", "retention",
                                     "timeout", "priority"} :
                              srvState'[k] = Int64Value(e[k][2])
                        /\ \A k \in {"ssl", "enable", "optional", "required"} :
                              srvState'[k] = BoolValue(e[k][2] = 1)
        /\ op.op = "CategoryRead" =>
              /\ catState'.tracked => catState'.name = catState.name
              /\ Ok(op) =>
                    \A e \in {RemoteEntry(op.body.obj["config"][2].categories,
                                          ValueString(catState.name))} :
                        /\ catState'.tracked
                        /\ \A k \in {"dir", "script", "pp"} : catState'[k] = StringValue(e[k][2])
                        /\ \A k \in {"priority", "order"} : catState'[k] = Int64Value(e[k][2]) ]_vars

\* A Read of news1 succeeded while the remote holds two entries of that
\* name: the state holds the host of the first.
C30_Witness ==
    /\ lastOp.op = "ServerRead" /\ Ok(lastOp)
    /\ Len(remote.servers) = 2
    /\ EntryNamed(remote.servers[1], "news1") /\ EntryNamed(remote.servers[2], "news1")
    /\ remote.servers[1]["host"] # remote.servers[2]["host"]
    /\ srvState.tracked /\ srvState.name = StringValue("news1")
    /\ srvState.host = StringValue(remote.servers[1]["host"][2])

====
